---- MODULE Spec2Model ----
(***************************************************************************)
(* A state-machine model of the real-time session engine of the chat       *)
(* backend: the SecurityManager (input sanitizer and rate gate,            *)
(* src/security.py), the ChatbotOrchestrator and the two-round model/tool  *)
(* protocol (src/chatbot_orchestrator.py, src/llm_integration.py,          *)
(* src/tools.py), the POST /chat handler (src/main.py) and the WebSocket   *)
(* handler with its ConnectionManager (src/websocket_chat.py).             *)
(*                                                                         *)
(* Texts are sequences of one-character strings.  Time is a discrete       *)
(* clock.  The server runs one asyncio event loop: a handler runs without  *)
(* interruption from one suspension point (an await that really yields)    *)
(* to the next, so every action below is one such uninterrupted stretch.   *)
(***************************************************************************)
EXTENDS Integers, Sequences, FiniteSets, TLC

(***************************************************************************)
(* Bounds of the model.  The first five scale numbers of the program down  *)
(* so that the ceilings are reached within the bounds:                     *)
(*   rate_limit_window      3600 s          (src/security.py:11)           *)
(*   max_requests_per_hour  100             (src/security.py:12)           *)
(*   max_message_length     5000            (src/security.py:13)           *)
(*   RapidWindow            60 s            (src/security.py:145)          *)
(*   RapidLimit             10              (src/security.py:147)          *)
(* The order between them is the program's: RapidLimit is below            *)
(* max_requests_per_hour and RapidWindow is not above rate_limit_window.   *)
(***************************************************************************)
rate_limit_window == 2

max_requests_per_hour == 2

max_message_length == 24

RapidWindow == 1

RapidLimit == 0

\* ChatbotOrchestrator.session_timeout (24 hours), in ticks of the clock
session_timeout == 1

\* the clock runs from 0 to MaxTime
MaxTime == rate_limit_window

\* at most MaxGateReq turns are started in a run of SpecGate: enough to fill
\* the window of a user and, with a second user, the window of their origin
MaxGateReq == max_requests_per_hour + 2

\* at most MaxReq turns are started in a run of Spec or SpecWs, and at most
\* MaxSockets WebSocket connections are opened in a run of SpecWs
MaxReq == 2

MaxSockets == 1

(***************************************************************************)
(* Characters and texts                                                    *)
(***************************************************************************)
\* Python's None where the model holds a string (an origin, a timestamp)
None == "None"

Whitespace == {" ", "\n", "\t"}

LowerLetters ==
  {"a","b","c","d","e","f","g","h","i","j","k","l","m",
   "n","o","p","q","r","s","t","u","v","w","x","y","z"}

Digits == {"0","1","2","3","4","5","6","7","8","9"}

HexDigits == Digits \cup {"a","b","c","d","e","f"}

\* str.lower() / re.IGNORECASE on the capital letters the inputs use
Lower(c) ==
  CASE c = "J" -> "j"
    [] c = "O" -> "o"
    [] c = "N" -> "n"
    [] c = "S" -> "s"
    [] c = "A" -> "a"
    [] OTHER -> c

\* the class \w
IsWord(c) == Lower(c) \in LowerLetters \cup Digits \cup {"_"}

\* the literal `lit` (lower case) occurs in s at position i, ignoring case
HasPrefixAt(s, i, lit) ==
  /\ i >= 1
  /\ i + Len(lit) - 1 <= Len(s)
  /\ \A k \in 1..Len(lit) : Lower(s[i + k - 1]) = lit[k]

RECURSIVE LazyTo(_, _, _)
\* `.*?` followed by `lit`, tried from position i: the position where lit
\* starts, 0 when there is none ('.' does not match a newline)
LazyTo(s, i, lit) ==
  IF i + Len(lit) - 1 > Len(s) THEN 0
  ELSE IF HasPrefixAt(s, i, lit) THEN i
  ELSE IF s[i] = "\n" THEN 0
  ELSE LazyTo(s, i + 1, lit)

RECURSIVE NextGt(_, _)
\* `[^>]*>` from position i: the position of the first '>' at or after i
NextGt(s, i) ==
  IF i > Len(s) THEN 0
  ELSE IF s[i] = ">" THEN i
  ELSE NextGt(s, i + 1)

RECURSIVE WordRunEnd(_, _)
\* the last position of the run of \w characters that starts at i (i - 1 when empty)
WordRunEnd(s, i) ==
  IF i <= Len(s) /\ IsWord(s[i]) THEN WordRunEnd(s, i + 1) ELSE i - 1

RECURSIVE SpaceRunEnd(_, _)
\* the last position of the run of \s characters that starts at i (i - 1 when empty)
SpaceRunEnd(s, i) ==
  IF i <= Len(s) /\ s[i] \in Whitespace THEN SpaceRunEnd(s, i + 1) ELSE i - 1

(***************************************************************************)
(* Regular expressions of src/security.py.  A pattern is a record; its     *)
(* kind says which shape of expression it is:                              *)
(*   "anytag"  <[^>]+>                                                     *)
(*   "script"  <script.*?>.*?</script>                                     *)
(*   "lit"     a literal (javascript:)                                     *)
(*   "on"      on\w+\s*=                                                   *)
(*   "tag"     <name.*?>                                                   *)
(***************************************************************************)
Chars_script == <<"<","s","c","r","i","p","t">>

Chars_endscript == <<"<","/","s","c","r","i","p","t",">">>

Chars_javascript == <<"j","a","v","a","s","c","r","i","p","t",":">>

AnyTag == [kind |-> "anytag", lit |-> <<"<">>]

PScript == [kind |-> "script", lit |-> Chars_script]

PJavascript == [kind |-> "lit", lit |-> Chars_javascript]

POn == [kind |-> "on", lit |-> <<"o","n">>]

PTag(name) == [kind |-> "tag", lit |-> <<"<">> \o name]

\* the position of the last character of the match of p that starts at i;
\* 0 when p does not match at i
MatchEnd(p, s, i) ==
  CASE p.kind = "anytag" ->
         IF i + 1 <= Len(s) /\ s[i] = "<" /\ s[i + 1] # ">"
         THEN NextGt(s, i + 2) ELSE 0
    [] p.kind = "lit" ->
         IF HasPrefixAt(s, i, p.lit) THEN i + Len(p.lit) - 1 ELSE 0
    [] p.kind = "tag" ->
         IF HasPrefixAt(s, i, p.lit)
         THEN LazyTo(s, i + Len(p.lit), <<">">>) ELSE 0
    [] p.kind = "script" ->
         IF HasPrefixAt(s, i, p.lit)
         THEN LET j == LazyTo(s, i + Len(p.lit), <<">">>)
                  k == IF j = 0 THEN 0 ELSE LazyTo(s, j + 1, Chars_endscript)
              IN IF k = 0 THEN 0 ELSE k + Len(Chars_endscript) - 1
         ELSE 0
    [] p.kind = "on" ->
         IF HasPrefixAt(s, i, p.lit)
         THEN LET w == WordRunEnd(s, i + 2)
                  e == SpaceRunEnd(s, w + 1) + 1
              IN IF w >= i + 2 /\ e <= Len(s) /\ s[e] = "=" THEN e ELSE 0
         ELSE 0

\* re.search(p, s, re.IGNORECASE) finds a match
Search(p, s) == \E i \in 1..Len(s) : MatchEnd(p, s, i) # 0

RECURSIVE RemoveFrom(_, _, _)
RemoveFrom(p, s, i) ==
  IF i > Len(s) THEN <<>>
  ELSE LET e == MatchEnd(p, s, i)
       IN IF e # 0 THEN RemoveFrom(p, s, e + 1)
          ELSE <<s[i]>> \o RemoveFrom(p, s, i + 1)

\* re.sub(p, '', s, flags=re.IGNORECASE): one pass, leftmost matches, not overlapping
Remove(p, s) == RemoveFrom(p, s, 1)

\* html.escape(c)
EscapeChar(c) ==
  CASE c = "&" -> <<"&","a","m","p",";">>
    [] c = "<" -> <<"&","l","t",";">>
    [] c = ">" -> <<"&","g","t",";">>
    [] c = "\"" -> <<"&","q","u","o","t",";">>
    [] c = "'" -> <<"&","#","x","2","7",";">>
    [] OTHER -> <<c>>

RECURSIVE HtmlEscape(_)
HtmlEscape(s) ==
  IF s = <<>> THEN <<>> ELSE EscapeChar(Head(s)) \o HtmlEscape(Tail(s))

RECURSIVE LStrip(_)
LStrip(s) ==
  IF s # <<>> /\ Head(s) \in Whitespace THEN LStrip(Tail(s)) ELSE s

RECURSIVE RStrip(_)
RStrip(s) ==
  IF s # <<>> /\ s[Len(s)] \in Whitespace
  THEN RStrip(SubSeq(s, 1, Len(s) - 1)) ELSE s

\* str.strip()
Strip(s) == RStrip(LStrip(s))

RECURSIVE CollapseFrom(_, _)
\* re.sub(r'\s+', ' ', s) from position i on
CollapseFrom(s, i) ==
  IF i > Len(s) THEN <<>>
  ELSE IF s[i] \in Whitespace
       THEN <<" ">> \o CollapseFrom(s, SpaceRunEnd(s, i) + 1)
       ELSE <<s[i]>> \o CollapseFrom(s, i + 1)

RECURSIVE SplitFrom(_, _)
\* str.split() from position i on: the maximal runs of non-whitespace
SplitFrom(s, i) ==
  IF i > Len(s) THEN <<>>
  ELSE IF s[i] \in Whitespace THEN SplitFrom(s, i + 1)
  ELSE LET RECURSIVE WordEnd(_)
           WordEnd(j) ==
             IF j + 1 <= Len(s) /\ s[j + 1] \notin Whitespace
             THEN WordEnd(j + 1) ELSE j
           e == WordEnd(i)
       IN <<SubSeq(s, i, e)>> \o SplitFrom(s, e + 1)

\* message.lower().split()
LowerWords(s) == SplitFrom([i \in 1..Len(s) |-> Lower(s[i])], 1)

(***************************************************************************)
(* SecurityManager (src/security.py)                                       *)
(***************************************************************************)
Chars_iframe == <<"i","f","r","a","m","e">>

Chars_object == <<"o","b","j","e","c","t">>

Chars_embed == <<"e","m","b","e","d">>

Chars_form == <<"f","o","r","m">>

Chars_input == <<"i","n","p","u","t">>

Chars_textarea == <<"t","e","x","t","a","r","e","a">>

Chars_select == <<"s","e","l","e","c","t">>

Chars_button == <<"b","u","t","t","o","n">>

Chars_link == <<"l","i","n","k">>

Chars_meta == <<"m","e","t","a">>

Chars_style == <<"s","t","y","l","e">>

Chars_title == <<"t","i","t","l","e">>

Chars_base == <<"b","a","s","e">>

Chars_bgsound == <<"b","g","s","o","u","n","d">>

\* self.suspicious_patterns, in the order of the list (with its repeated entries)
suspicious_patterns ==
  << PScript, PJavascript, POn,
     PTag(Chars_iframe), PTag(Chars_object), PTag(Chars_embed), PTag(Chars_form),
     PTag(Chars_input), PTag(Chars_textarea), PTag(Chars_select), PTag(Chars_button),
     PTag(Chars_link), PTag(Chars_meta), PTag(Chars_style), PTag(Chars_title),
     PTag(Chars_base), PTag(Chars_bgsound),
     PTag(Chars_link), PTag(Chars_meta), PTag(Chars_style), PTag(Chars_title),
     PTag(Chars_base), PTag(Chars_bgsound),
     PTag(Chars_link), PTag(Chars_meta), PTag(Chars_style), PTag(Chars_title),
     PTag(Chars_base), PTag(Chars_bgsound) >>

RECURSIVE RemovePatterns(_, _, _)
\* for pattern in patterns[i..]: text = re.sub(pattern, '', text, flags=re.IGNORECASE)
RemovePatterns(patterns, text, i) ==
  IF i > Len(patterns) THEN text
  ELSE IF Search(patterns[i], text)
       THEN RemovePatterns(patterns, Remove(patterns[i], text), i + 1)
       ELSE RemovePatterns(patterns, text, i + 1)

sanitize_input(text) ==
  IF text = <<>> THEN <<>>
  ELSE LET notags == Remove(AnyTag, text)
           escaped == HtmlEscape(notags)
           cleaned == RemovePatterns(suspicious_patterns, escaped, 1)
       IN Strip(CollapseFrom(cleaned, 1))

\* validate_message without the length check
validate_message_unbounded(message) ==
  IF message = <<>> \/ Strip(message) = <<>> THEN FALSE
  ELSE sanitize_input(message) = Strip(message)

\* validate_message that does not compare the sanitized text with the original
validate_message_lax(message) ==
  IF message = <<>> \/ Strip(message) = <<>> THEN FALSE
  ELSE Len(message) <= max_message_length

validate_message(message) ==
  IF message = <<>> \/ Strip(message) = <<>> THEN FALSE
  ELSE IF Len(message) > max_message_length THEN FALSE
  ELSE sanitize_input(message) = Strip(message)

\* the keys f"user_{user_id}" and f"ip_{ip_address}" of request_counts
UserKey(user_id) == <<"user", user_id>>

IpKey(ip_address) == <<"ip", ip_address>>

\* [req for req in requests if req > cutoff_time]
After(requests, cutoff_time) == SelectSeq(requests, LAMBDA req : req > cutoff_time)

\* check_rate_limit with the user's ceiling compared by > instead of >=
check_rate_limit_lax(rc, user_id, ip_address, t) ==
  LET cutoff_time == t - rate_limit_window
      user_requests == After(rc[UserKey(user_id)], cutoff_time)
      ip_requests == After(rc[IpKey(ip_address)], cutoff_time)
  IN [ok |-> ~(Len(user_requests) > max_requests_per_hour)
               /\ ~(Len(ip_requests) >= max_requests_per_hour * 2),
      rc |-> [rc EXCEPT ![UserKey(user_id)] = user_requests,
                        ![IpKey(ip_address)] = ip_requests]]

\* check_rate_limit that also records the request it lets through
check_rate_limit_recording(rc, user_id, ip_address, t) ==
  LET cutoff_time == t - rate_limit_window
      user_requests == After(rc[UserKey(user_id)], cutoff_time)
      ip_requests == After(rc[IpKey(ip_address)], cutoff_time)
      ok == Len(user_requests) < max_requests_per_hour
            /\ Len(ip_requests) < max_requests_per_hour * 2
  IN [ok |-> ok,
      rc |-> [rc EXCEPT ![UserKey(user_id)] =
                           IF ok THEN Append(user_requests, t) ELSE user_requests,
                        ![IpKey(ip_address)] = ip_requests]]

\* check_rate_limit at time t: its result and request_counts as it leaves it
check_rate_limit(rc, user_id, ip_address, t) ==
  LET cutoff_time == t - rate_limit_window
      user_requests == After(rc[UserKey(user_id)], cutoff_time)
      rc1 == [rc EXCEPT ![UserKey(user_id)] = user_requests]
  IN IF Len(user_requests) >= max_requests_per_hour
     THEN [ok |-> FALSE, rc |-> rc1]
     ELSE IF ip_address # None
          THEN LET ip_requests == After(rc1[IpKey(ip_address)], cutoff_time)
                   rc2 == [rc1 EXCEPT ![IpKey(ip_address)] = ip_requests]
               IN IF Len(ip_requests) >= max_requests_per_hour * 2
                  THEN [ok |-> FALSE, rc |-> rc2]
                  ELSE [ok |-> TRUE, rc |-> rc2]
          ELSE [ok |-> TRUE, rc |-> rc1]

\* record_request that records the user's timestamp twice
record_request_twice(rc, user_id, ip_address, t) ==
  [rc EXCEPT ![UserKey(user_id)] = Append(Append(@, t), t),
             ![IpKey(ip_address)] = Append(@, t)]

\* record_request at time t: request_counts as it leaves it
record_request(rc, user_id, ip_address, t) ==
  LET rc1 == [rc EXCEPT ![UserKey(user_id)] = Append(@, t)]
  IN IF ip_address # None
     THEN [rc1 EXCEPT ![IpKey(ip_address)] = Append(@, t)]
     ELSE rc1

\* the number of entries of suspicious_patterns that re.search finds in message
PatternHits(message) ==
  Cardinality({i \in 1..Len(suspicious_patterns) : Search(suspicious_patterns[i], message)})

\* max(word_counts.values()) for the words of message
MaxRepetition(words) ==
  LET Count(w) == Cardinality({i \in 1..Len(words) : words[i] = w})
      counts == {Count(words[i]) : i \in 1..Len(words)}
  IN IF counts = {} THEN 0 ELSE CHOOSE c \in counts : \A d \in counts : d <= c

\* the part of suspicious_score that the text decides: the pattern matches
\* and the repetition of one word
text_score(message) ==
  LET words == LowerWords(message)
      \* max_repetition > len(words) * 0.3
      repetition == IF Len(words) > 10 /\ 10 * MaxRepetition(words) > 3 * Len(words)
                    THEN 5 ELSE 0
  IN 10 * PatternHits(message) + repetition

\* suspicious_score of one call of detect_suspicious_activity at time t,
\* given the part the text decides
suspicious_score(textual, user_id, rc, t) ==
  LET recent_requests == After(rc[UserKey(user_id)], t - RapidWindow)
      rapid == IF Len(recent_requests) > RapidLimit THEN 15 ELSE 0
  IN textual + rapid

\* detect_suspicious_activity that blocks from a score of 20 on
detect_suspicious_activity_from20(textual, user_id, ip_address, rc, susp, blocked, t) ==
  LET score == suspicious_score(textual, user_id, rc, t)
      susp1 == IF score > 5 /\ ip_address # None
               THEN [susp EXCEPT ![ip_address] = @ + 1] ELSE susp
      blocked1 == IF score > 5 /\ score >= 20 /\ ip_address # None
                  THEN blocked \cup {ip_address} ELSE blocked
  IN [ret |-> (score > 5 /\ score >= 20), suspicious_ips |-> susp1, blocked_ips |-> blocked1]

\* detect_suspicious_activity that forgives an origin whose message scores
\* nothing: its counter goes down and its block is lifted
detect_suspicious_activity_decay(textual, user_id, ip_address, rc, susp, blocked, t) ==
  LET score == suspicious_score(textual, user_id, rc, t)
      susp1 == IF ip_address = None THEN susp
               ELSE IF score > 5 THEN [susp EXCEPT ![ip_address] = @ + 1]
               ELSE IF score = 0 /\ susp[ip_address] > 0
                    THEN [susp EXCEPT ![ip_address] = @ - 1]
               ELSE susp
      blocked1 == IF ip_address = None THEN blocked
                  ELSE IF score > 20 THEN blocked \cup {ip_address}
                  ELSE IF score = 0 THEN blocked \ {ip_address}
                  ELSE blocked
  IN [ret |-> (score > 5 /\ score > 20), suspicious_ips |-> susp1, blocked_ips |-> blocked1]

\* detect_suspicious_activity at time t: its result, suspicious_ips and
\* blocked_ips as it leaves them
detect_suspicious_activity(textual, user_id, ip_address, rc, susp, blocked, t) ==
  LET score == suspicious_score(textual, user_id, rc, t)
      susp1 == IF score > 5 /\ ip_address # None
               THEN [susp EXCEPT ![ip_address] = @ + 1] ELSE susp
      blocked1 == IF score > 5 /\ score > 20 /\ ip_address # None
                  THEN blocked \cup {ip_address} ELSE blocked
  IN [ret |-> (score > 5 /\ score > 20), suspicious_ips |-> susp1, blocked_ips |-> blocked1]

is_ip_blocked(blocked, ip_address) == ip_address \in blocked

\* validate_session: re.match of the canonical UUID form; `$` also matches
\* before one trailing newline
validate_session(session_id) ==
  LET body == IF Len(session_id) = 37 /\ session_id[37] = "\n"
              THEN SubSeq(session_id, 1, 36) ELSE session_id
  IN /\ Len(body) = 36
     /\ \A i \in 1..36 :
          IF i \in {9, 14, 19, 24} THEN body[i] = "-" ELSE body[i] \in HexDigits

(***************************************************************************)
(* SessionStore: the chat_sessions and chat_messages tables                *)
(* (src/models.py), written through ChatbotOrchestrator.  A table is a     *)
(* sequence in insertion order; a row's primary key is its position.       *)
(***************************************************************************)
\* None where the model holds a number (tokens_used, updated_at)
Null == 0 - 1

\* the most recent turns sent to the model: limit=20 in the program
\* (src/chatbot_orchestrator.py:78), scaled down
history_limit == 4

Digit(n) ==
  CASE n = 0 -> "0" [] n = 1 -> "1" [] n = 2 -> "2" [] n = 3 -> "3" [] n = 4 -> "4"
    [] n = 5 -> "5" [] n = 6 -> "6" [] n = 7 -> "7" [] n = 8 -> "8" [] OTHER -> "9"

\* str(uuid.uuid4()): the n-th generated id; distinct n give distinct ids
Uuid(n) ==
  [i \in 1..36 |->
     IF i \in {9, 14, 19, 24} THEN "-"
     ELSE IF i = 15 THEN "4"
     ELSE IF i = 20 THEN "8"
     ELSE IF i = 35 THEN Digit(n \div 10)
     ELSE IF i = 36 THEN Digit(n % 10)
     ELSE "0"]

\* f"Chat Session {datetime.now().strftime('%Y-%m-%d %H:%M')}"
DefaultTitle(t) == <<"Chat Session", t>>

\* create_session: the table with the new row appended (updated_at has no
\* default, it is NULL until the first update)
create_session(ss, user_id, t) ==
  Append(ss, [user_id |-> user_id,
              session_id |-> Uuid(Len(ss) + 1),
              title |-> DefaultTitle(t),
              is_active |-> TRUE,
              created_at |-> t,
              updated_at |-> Null])

\* get_session: the primary key of the active row with this session_id, 0 for None
get_session(ss, session_id) ==
  LET hits == {i \in 1..Len(ss) : ss[i].session_id = session_id /\ ss[i].is_active}
  IN IF hits = {} THEN 0 ELSE CHOOSE i \in hits : \A j \in hits : i <= j

\* save_message: the table with the new row appended; req, via and socket
\* are no columns, they name the turn the row was written for and how it
\* arrived
save_message(ms, session, role, content, tokens_used, tool_calls, turn) ==
  Append(ms, [session_id |-> session,
              role |-> role,
              content |-> content,
              tokens_used |-> tokens_used,
              tool_calls |-> tool_calls,
              req |-> turn.req,
              via |-> turn.via,
              socket |-> turn.socket])

\* the rows of one session, in creation order
Transcript(ms, session) == SelectSeq(ms, LAMBDA m : m.session_id = session)

\* get_conversation_history_for_llm: the last `limit` rows, oldest first
get_conversation_history_for_llm(ms, session) ==
  LET rows == Transcript(ms, session)
      first == IF Len(rows) > history_limit THEN Len(rows) - history_limit + 1 ELSE 1
  IN [i \in 1..(Len(rows) - first + 1) |->
        [role |-> rows[first + i - 1].role, content |-> rows[first + i - 1].content]]

\* get_conversation_history: the first `limit` rows of the session, oldest
\* first (order_by(created_at.asc()).limit(limit), limit left at its default)
get_conversation_history(ms, session) ==
  LET rows == Transcript(ms, session)
  IN SubSeq(rows, 1, IF Len(rows) > history_limit THEN history_limit ELSE Len(rows))

(***************************************************************************)
(* ModelClient and tools (src/llm_integration.py, src/tools.py).  A model  *)
(* response is [fail, content, usage, tool_calls]: fail says the call      *)
(* raised (transport error, timeout, malformed response); usage is Null    *)
(* when the response carries none.  A tool call is [id, name, arguments],  *)
(* arguments "ok" or "bad" (json.loads raises, or the decoded value is no  *)
(* object).  A model invocation is recorded as [messages, tools,           *)
(* requested]: the message list sent, whether the tool catalogue was       *)
(* offered, and the tool calls the response asks for.                      *)
(***************************************************************************)
system_prompt == <<"You are a helpful AI assistant">>

\* str(e) of the exception a failing model call raises, and of the one
\* json.loads raises on arguments it cannot decode
TransportError == "Request timed out."

DecodeError == "Expecting value: line 1 column 1 (char 0)"

\* f"I apologize, but I encountered an error: {str(e)}"
ErrorReply(e) == <<"I apologize, but I encountered an error: ", e>>

\* execute_tool for the tools that return without yielding to the event loop
execute_tool(tool_name) ==
  CASE tool_name = "calculate" -> <<"Calculation">>
    [] tool_name = "get_current_time" -> <<"Current date and time">>
    [] tool_name = "weather_search" -> <<"I can't get weather information">>
    [] OTHER -> <<"Unknown tool">>

\* web_search awaits the HTTP client: the only await of a turn that yields
Suspends(tool_name) == tool_name = "web_search"

\* what LLMIntegration.process_message returns from its except branch
LlmError(tk, e) ==
  [tk EXCEPT !.pc = "reply",
             !.response = [message |-> ErrorReply(e), tokens_used |-> Null,
                           tool_calls |-> <<>>]]

\* FinalCall that offers the tool catalogue again and runs the tool calls of
\* the second response
FinalCall_again(tk, r2) ==
  LET call == [messages |-> tk.llm_messages, tools |-> TRUE, requested |-> r2.tool_calls]
  IN [tk EXCEPT !.calls = Append(@, call),
                !.u2 = r2.usage,
                !.ran = @ \o [i \in 1..Len(r2.tool_calls) |-> r2.tool_calls[i].id],
                !.pc = "reply",
                !.response = [message |-> r2.content, tokens_used |-> r2.usage,
                              tool_calls |-> tk.tool_calls]]

\* the second model call and the return that follows it
FinalCall(tk, r2) ==
  LET call == [messages |-> tk.llm_messages, tools |-> FALSE, requested |-> r2.tool_calls]
      tk1 == [tk EXCEPT !.calls = Append(@, call), !.u2 = r2.usage]
  IN IF r2.fail THEN LlmError(tk1, TransportError)
     ELSE [tk1 EXCEPT !.pc = "reply",
                      !.response = [message |-> r2.content,
                                    tokens_used |-> r2.usage,
                                    tool_calls |-> tk.tool_calls]]

RECURSIVE RunTools(_, _, _)
\* the loop `for tool_call in assistant_message.tool_calls` from its i-th
\* round on, up to the next await that yields or the return
RunTools(tk, i, r2) ==
  IF i > Len(tk.tool_calls) THEN FinalCall(tk, r2)
  ELSE LET tc == tk.tool_calls[i]
       IN IF tc.arguments = "bad" THEN LlmError(tk, DecodeError)
          ELSE IF Suspends(tc.name) THEN [tk EXCEPT !.pc = "tool", !.idx = i]
          ELSE RunTools(
                 [tk EXCEPT !.ran = Append(@, tc.id),
                            !.llm_messages = Append(@, [role |-> "tool",
                                                       content |-> execute_tool(tc.name),
                                                       tool_call_id |-> tc.id])],
                 i + 1, r2)

(***************************************************************************)
(* Table conversation_contexts (src/chatbot_orchestrator.py): a row is     *)
(* [session_id, context_data, updated_at], context_data a dict.            *)
(***************************************************************************)
\* a context_data dict: the keys of keys with their values
ContextData(keys, user_name, preferences, topic) ==
  [k \in keys |-> CASE k = "user_name" -> user_name
                    [] k = "preferences" -> preferences
                    [] OTHER -> topic]

\* the rows of table conversation_contexts with this session_id
ContextRows(cs, session_id) == {i \in 1..Len(cs) : cs[i].session_id = session_id}

\* None as a context: the dict without a key (both are falsy for `if context`)
NoContext == ContextData({}, "", {}, "")

\* get_context: the context_data of the session, None without a row or with
\* an empty dict
get_context(cs, session_id) ==
  LET hits == ContextRows(cs, session_id)
  IN IF hits = {} THEN NoContext
     ELSE LET context == cs[CHOOSE i \in hits : \A j \in hits : i <= j]
          IN IF DOMAIN context.context_data # {} THEN context.context_data ELSE NoContext

\* save_context: the row of the session gets context_data and the time of
\* the update; without a row one is added (updated_at is set on update only)
save_context(cs, session_id, context_data, t) ==
  LET hits == ContextRows(cs, session_id)
  IN IF hits # {}
     THEN LET i == CHOOSE i \in hits : \A j \in hits : i <= j
          IN [cs EXCEPT ![i].context_data = context_data, ![i].updated_at = t]
     ELSE Append(cs, [session_id |-> session_id, context_data |-> context_data,
                      updated_at |-> Null])

\* the keys update_context puts into its dict: the arguments that are truthy
\* (a name that is neither None nor empty, a dict of preferences with a key)
GivenKeys(user_name, preferences) ==
  (IF user_name \notin {None, ""} THEN {"user_name"} ELSE {})
    \cup (IF preferences # {} THEN {"preferences"} ELSE {})

\* update_context: a dict of the given arguments is saved, if it has a key
update_context(cs, session_id, user_name, preferences, t) ==
  LET context_data == ContextData(GivenKeys(user_name, preferences), user_name,
                                  preferences, "")
  IN IF DOMAIN context_data # {}
     THEN save_context(cs, session_id, context_data, t)
     ELSE cs

\* f"User context: {json.dumps(context)}"
ContextNote(context) == <<"User context: ", context>>

\* LLMIntegration.process_message from its start to its first yield or its return
LlmStart(tk, history, context, r1, r2) ==
  LET round1 == <<[role |-> "system", content |-> system_prompt]>>
                  \o history
                  \o (IF DOMAIN context # {}
                      THEN <<[role |-> "system", content |-> ContextNote(context)]>>
                      ELSE <<>>)
                  \o <<[role |-> "user", content |-> tk.message]>>
      tk1 == [tk EXCEPT !.calls = <<[messages |-> round1, tools |-> TRUE,
                                     requested |-> r1.tool_calls]>>,
                        !.u1 = r1.usage]
  IN IF r1.fail THEN LlmError(tk1, TransportError)
     ELSE IF r1.tool_calls = <<>>
          THEN [tk1 EXCEPT !.pc = "reply",
                           !.llm_messages = round1,
                           !.response = [message |-> r1.content,
                                         tokens_used |-> r1.usage,
                                         tool_calls |-> <<>>]]
          ELSE RunTools(
                 [tk1 EXCEPT !.tool_calls = r1.tool_calls,
                             !.llm_messages =
                                Append(round1, [role |-> "assistant",
                                                content |-> r1.content,
                                                tool_calls |-> r1.tool_calls])],
                 1, r2)


(***************************************************************************)
(* ChatbotOrchestrator.process_message (src/chatbot_orchestrator.py).  A   *)
(* turn is a record: the coroutine's locals (session, session_id, message, *)
(* the model's message list, the tool calls and the position in their      *)
(* loop) and, for the properties, what it has done so far (req: its number *)
(* in the order of invocation, calls: the model invocations, ran: the tool *)
(* calls executed, u1, u2: the usage of the two responses, validated,      *)
(* admitted: the checks its request passed, asked: the session id the      *)
(* caller supplied, store_error: the SessionStore raised during the call,  *)
(* raised: the call ended by raising to its caller).                       *)
(***************************************************************************)
NoResponse == [message |-> <<>>, tokens_used |-> Null, tool_calls |-> <<>>]

NewTask(via, socket, req, user_id, session_id, message, validated, admitted) ==
  [via |-> via, socket |-> socket, req |-> req, user_id |-> user_id,
   session |-> 0, session_id |-> session_id, message |-> message,
   validated |-> validated, admitted |-> admitted,
   pc |-> "start", idx |-> 0, tool_calls |-> <<>>, llm_messages |-> <<>>,
   calls |-> <<>>, ran |-> <<>>, u1 |-> Null, u2 |-> Null,
   response |-> NoResponse,
   asked |-> session_id, store_error |-> FALSE, raised |-> FALSE,
   disconnected |-> FALSE]

NoTask == NewTask("none", 0, 0, 0, <<>>, <<>>, FALSE, FALSE)

\* Complete that returns the reply without saving the assistant turn
Complete_unsaved(ss, ms, tk, t) ==
  [sessions |-> ss, messages |-> ms,
   task |-> IF tk.pc = "reply" THEN [tk EXCEPT !.pc = "done"] ELSE tk]

\* Complete that saves the reply with its tool calls as a turn of the user
Complete_as_user(ss, ms, tk, t) ==
  IF tk.pc = "reply"
  THEN [sessions |-> [ss EXCEPT ![tk.session].updated_at = t],
        messages |-> save_message(ms, tk.session, "user", tk.response.message,
                                  tk.response.tokens_used, tk.response.tool_calls, tk),
        task |-> [tk EXCEPT !.pc = "done"]]
  ELSE [sessions |-> ss, messages |-> ms, task |-> tk]

\* process_message after the model client has returned: the assistant turn
\* is saved and the session touched
Complete(ss, ms, tk, t) ==
  IF tk.pc = "reply"
  THEN [sessions |-> [ss EXCEPT ![tk.session].updated_at = t],
        messages |-> save_message(ms, tk.session, "assistant", tk.response.message,
                                  tk.response.tokens_used, tk.response.tool_calls, tk),
        task |-> [tk EXCEPT !.pc = "done"]]
  ELSE [sessions |-> ss, messages |-> ms, task |-> tk]

\* process_message from its start to its first yield or its return: the two
\* tables as it leaves them and the turn
\* process_message that uses the named session whoever owns it
process_message_any_owner(ss, ms, cs, task, r1, r2, t) ==
  LET found == IF task.session_id # <<>> THEN get_session(ss, task.session_id) ELSE 0
      usable == found # 0
      ss1 == IF usable THEN ss ELSE create_session(ss, task.user_id, t)
      session == IF usable THEN found ELSE Len(ss1)
      tk0 == [task EXCEPT !.session = session, !.session_id = ss1[session].session_id]
      ms1 == save_message(ms, session, "user", tk0.message, Null, <<>>, tk0)
      history == get_conversation_history_for_llm(ms1, session)
      context == get_context(cs, tk0.session_id)
  IN Complete(ss1, ms1, LlmStart(tk0, history, context, r1, r2), t)

process_message(ss, ms, cs, task, r1, r2, t) ==
  LET found == IF task.session_id # <<>> THEN get_session(ss, task.session_id) ELSE 0
      usable == found # 0 /\ ss[found].user_id = task.user_id
      ss1 == IF usable THEN ss ELSE create_session(ss, task.user_id, t)
      session == IF usable THEN found ELSE Len(ss1)
      tk0 == [task EXCEPT !.session = session, !.session_id = ss1[session].session_id]
      ms1 == save_message(ms, session, "user", tk0.message, Null, <<>>, tk0)
      history == get_conversation_history_for_llm(ms1, session)
      context == get_context(cs, tk0.session_id)
  IN Complete(ss1, ms1, LlmStart(tk0, history, context, r1, r2), t)

\* what process_message returns from its own except branch
TechnicalReply == <<"I apologize, but I'm experiencing technical difficulties">>

\* process_message when the SessionStore raises, at "resolve" (the query or
\* the commit that resolves the session) or at "user" (the commit of the
\* user row, the session resolved): the except branch returns a reply
process_message_store_down(ss, ms, task, at, t) ==
  LET found == IF task.session_id # <<>> THEN get_session(ss, task.session_id) ELSE 0
      usable == found # 0 /\ ss[found].user_id = task.user_id
      ss1 == IF usable THEN ss ELSE create_session(ss, task.user_id, t)
      session == IF usable THEN found ELSE Len(ss1)
      reply == [message |-> TechnicalReply, tokens_used |-> Null, tool_calls |-> <<>>]
      tk0 == [task EXCEPT !.pc = "done", !.store_error = TRUE, !.response = reply]
  IN IF at = "resolve"
     THEN [sessions |-> ss, messages |-> ms, task |-> tk0]
     ELSE [sessions |-> ss1, messages |-> ms,
           task |-> [tk0 EXCEPT !.session = session,
                                !.session_id = ss1[session].session_id]]

(***************************************************************************)
(* The inputs the specifications draw from                                 *)
(***************************************************************************)
Repeat(c, n) == [i \in 1..n |-> c]

\* an accepted message
MsgHello == <<"h","i">>

\* one character more than max_message_length
MsgTooLong == Repeat("a", max_message_length + 1)

\* a message of exactly max_message_length characters
MsgMaxLen == Repeat("a", max_message_length)

\* a message that sanitize_input changes
MsgAmp == <<"a","&","b">>

\* an accepted message with whitespace around it
MsgPadded == <<" ","o","k"," ">>

\* eleven words, one of them four times: valid, and scored for repetition
MsgRepeat ==
  <<"a"," ","a"," ","a"," ","a"," ","b"," ","c"," ","d"," ","e"," ","f"," ","g"," ","h">>

\* the denylisted pattern `javascript:` three times
MsgThrice == Chars_javascript \o Chars_javascript \o Chars_javascript

\* a tag whose pattern is listed three times in suspicious_patterns
MsgMeta == <<"<","m","e","t","a",">">>

Texts ==
  {MsgHello, MsgMaxLen, MsgTooLong, MsgAmp, MsgPadded, MsgRepeat, MsgThrice, MsgMeta}

MalformedSid == <<"n","o","t","-","a","-","u","u","i","d">>

\* a well-formed session id that no session has
UnknownSid == Uuid(99)

\* the text functions tabulated over the inputs (computed once)
Validated == [m \in Texts |-> validate_message(m)]

Sanitized == [m \in Texts |-> sanitize_input(m)]

TextScores == [m \in Texts |-> text_score(m)]

(***************************************************************************)
(* The state                                                               *)
(***************************************************************************)
Users == {1, 2, 3}

Origins == {"ip1", "ip2"}

VARIABLES
  now,                 \* time.time() / datetime.utcnow()
  request_counts,      \* SecurityManager.request_counts
  blocked_ips,         \* SecurityManager.blocked_ips
  suspicious_ips,      \* SecurityManager.suspicious_ips
  sessions,            \* table chat_sessions
  messages,            \* table chat_messages
  tasks,               \* the process_message coroutines suspended in an await
  done,                \* the process_message call that returned last
  invoked,             \* the number of process_message calls so far
  sockets,             \* the WebSocket handlers: [user_id, session_id, state]
  active_connections,  \* ConnectionManager.active_connections: user -> socket, 0 for none
  user_sessions,       \* ConnectionManager.user_sessions: user -> session id, <<>> for none
  last,                \* the latest request (a POST /chat or a WebSocket message
                       \* event): the checks it passed and its outcome
  contexts,            \* table conversation_contexts: [session_id, context_data, updated_at]
  sanitizing,          \* the latest sanitize_input calls: [raw, value, passes], the
                       \* text given first, the latest result and the number of passes
  listing              \* the latest answer of GET /chat/sessions/{id}/messages:
                       \* [outcome, session, messages]

vars == <<now, request_counts, blocked_ips, suspicious_ips, sessions, messages,
          tasks, done, invoked, sockets, active_connections, user_sessions, last,
          contexts, sanitizing, listing>>

security == <<request_counts, blocked_ips, suspicious_ips>>

store == <<sessions, messages, tasks, done, invoked>>

registry == <<sockets, active_connections, user_sessions>>

aside == <<contexts, sanitizing, listing>>

NoText == [raw |-> <<>>, value |-> <<>>, passes |-> 0]

NoListing == [outcome |-> "none", session |-> 0, messages |-> <<>>]

NoRequest ==
  [via |-> "none", user |-> 0, ip |-> None, outcome |-> "none",
   validated |-> FALSE, rl |-> "none", recorded |-> FALSE]

Init ==
  /\ now = 0
  /\ request_counts = [k \in {UserKey(u) : u \in Users} \cup {IpKey(ip) : ip \in Origins} |-> <<>>]
  /\ blocked_ips = {}
  /\ suspicious_ips = [ip \in Origins |-> 0]
  /\ sessions = <<>>
  /\ messages = <<>>
  /\ tasks = {}
  /\ done = NoTask
  /\ invoked = 0
  /\ sockets = <<>>
  /\ active_connections = [u \in Users |-> 0]
  /\ user_sessions = [u \in Users |-> <<>>]
  /\ last = NoRequest
  /\ contexts = <<>>
  /\ sanitizing = NoText
  /\ listing = NoListing

\* the clock advances
Tick ==
  /\ now < MaxTime
  /\ now' = now + 1
  /\ UNCHANGED <<security, store, registry, last, aside>>

\* a process_message call has run up to a yield or to its return
Proceed(pm) ==
  /\ sessions' = pm.sessions
  /\ messages' = pm.messages
  /\ IF pm.task.pc = "done"
     THEN /\ done' = pm.task
          /\ tasks' = {tk \in tasks : tk.req # pm.task.req}
     ELSE /\ done' = done
          /\ tasks' = {tk \in tasks : tk.req # pm.task.req} \cup {pm.task}

(***************************************************************************)
(* POST /chat (src/main.py, chat_with_bot)                                 *)
(***************************************************************************)
\* the security checks with the block looked at after the rate gate: the
\* windows of a blocked origin's request are evicted before it is rejected
ChatGate_late_block(user_id, client_ip, message, session_id, rc, susp, blocked, t) ==
  LET base == [outcome |-> "403", rc |-> rc, suspicious_ips |-> susp, blocked_ips |-> blocked,
               validated |-> FALSE, rl |-> "none", recorded |-> FALSE]
      rl == check_rate_limit(rc, user_id, client_ip, t)
      det == detect_suspicious_activity(TextScores[message], user_id, client_ip, rl.rc, susp, blocked, t)
      rec == record_request(rl.rc, user_id, client_ip, t)
  IN IF ~Validated[message] THEN [base EXCEPT !.outcome = "400"]
     ELSE IF ~rl.ok
          THEN [base EXCEPT !.outcome = "429", !.validated = TRUE, !.rl = "false", !.rc = rl.rc]
     ELSE IF client_ip # None /\ is_ip_blocked(blocked, client_ip)
          THEN [base EXCEPT !.rc = rl.rc]
     ELSE IF det.ret
          THEN [base EXCEPT !.outcome = "400 suspicious", !.validated = TRUE, !.rl = "true",
                            !.rc = rl.rc, !.suspicious_ips = det.suspicious_ips,
                            !.blocked_ips = det.blocked_ips]
     ELSE LET passed == [base EXCEPT !.validated = TRUE, !.rl = "true", !.recorded = TRUE,
                                     !.rc = rec, !.suspicious_ips = det.suspicious_ips,
                                     !.blocked_ips = det.blocked_ips]
          IN IF session_id # <<>> /\ ~validate_session(session_id)
             THEN [passed EXCEPT !.outcome = "400 session id"]
             ELSE [passed EXCEPT !.outcome = "invoke"]

\* the security checks of chat_with_bot, up to the call of process_message:
\* the outcome and the SecurityManager's state as they leave it
ChatGate(user_id, client_ip, message, session_id, rc, susp, blocked, t) ==
  LET base == [outcome |-> "403", rc |-> rc, suspicious_ips |-> susp, blocked_ips |-> blocked,
               validated |-> FALSE, rl |-> "none", recorded |-> FALSE]
      rl == check_rate_limit(rc, user_id, client_ip, t)
      det == detect_suspicious_activity(TextScores[message], user_id, client_ip, rl.rc, susp, blocked, t)
      rec == record_request(rl.rc, user_id, client_ip, t)
  IN IF client_ip # None /\ is_ip_blocked(blocked, client_ip) THEN base
     ELSE IF ~Validated[message] THEN [base EXCEPT !.outcome = "400"]
     ELSE IF ~rl.ok
          THEN [base EXCEPT !.outcome = "429", !.validated = TRUE, !.rl = "false", !.rc = rl.rc]
     ELSE IF det.ret
          THEN [base EXCEPT !.outcome = "400 suspicious", !.validated = TRUE, !.rl = "true",
                            !.rc = rl.rc, !.suspicious_ips = det.suspicious_ips,
                            !.blocked_ips = det.blocked_ips]
     ELSE LET passed == [base EXCEPT !.validated = TRUE, !.rl = "true", !.recorded = TRUE,
                                     !.rc = rec, !.suspicious_ips = det.suspicious_ips,
                                     !.blocked_ips = det.blocked_ips]
          IN IF session_id # <<>> /\ ~validate_session(session_id)
             THEN [passed EXCEPT !.outcome = "400 session id"]
             ELSE [passed EXCEPT !.outcome = "invoke"]

\* chat_with_bot that hands the message to the orchestrator before it looks
\* at the outcome of the security checks
chat_with_bot_unguarded(user_id, client_ip, message, session_id, r1, r2) ==
  LET g == ChatGate(user_id, client_ip, message, session_id,
                    request_counts, suspicious_ips, blocked_ips, now)
      task == NewTask("rest", 0, invoked + 1, user_id, session_id, Sanitized[message],
                      g.validated, g.rl = "true" /\ g.recorded)
  IN /\ request_counts' = g.rc
     /\ suspicious_ips' = g.suspicious_ips
     /\ blocked_ips' = g.blocked_ips
     /\ invoked' = invoked + 1
     /\ Proceed(process_message(sessions, messages, contexts, task, r1, r2, now))
     /\ last' = [via |-> "rest", user |-> user_id, ip |-> client_ip,
                 outcome |-> g.outcome, validated |-> g.validated, rl |-> g.rl,
                 recorded |-> g.recorded]
     /\ UNCHANGED <<now, aside, registry>>

\* one POST /chat request, from its arrival to its response or to the first
\* yield of its turn
chat_with_bot(user_id, client_ip, message, session_id, r1, r2) ==
  LET g == ChatGate(user_id, client_ip, message, session_id,
                    request_counts, suspicious_ips, blocked_ips, now)
      task == NewTask("rest", 0, invoked + 1, user_id, session_id, Sanitized[message],
                      g.validated, g.rl = "true" /\ g.recorded)
  IN /\ request_counts' = g.rc
     /\ suspicious_ips' = g.suspicious_ips
     /\ blocked_ips' = g.blocked_ips
     /\ IF g.outcome = "invoke"
        THEN /\ invoked' = invoked + 1
             /\ Proceed(process_message(sessions, messages, contexts, task, r1, r2, now))
        ELSE UNCHANGED store
     /\ last' = [via |-> "rest", user |-> user_id, ip |-> client_ip,
                 outcome |-> g.outcome, validated |-> g.validated, rl |-> g.rl,
                 recorded |-> g.recorded]
     /\ UNCHANGED <<now, aside, registry>>

\* one POST /chat request during which the SessionStore raises
chat_with_bot_store_down(user_id, client_ip, message, session_id, at) ==
  LET g == ChatGate(user_id, client_ip, message, session_id,
                    request_counts, suspicious_ips, blocked_ips, now)
      task == NewTask("rest", 0, invoked + 1, user_id, session_id, Sanitized[message],
                      g.validated, g.rl = "true" /\ g.recorded)
  IN /\ request_counts' = g.rc
     /\ suspicious_ips' = g.suspicious_ips
     /\ blocked_ips' = g.blocked_ips
     /\ IF g.outcome = "invoke"
        THEN /\ invoked' = invoked + 1
             /\ Proceed(process_message_store_down(sessions, messages, task, at, now))
        ELSE UNCHANGED store
     /\ last' = [via |-> "rest", user |-> user_id, ip |-> client_ip,
                 outcome |-> g.outcome, validated |-> g.validated, rl |-> g.rl,
                 recorded |-> g.recorded]
     /\ UNCHANGED <<now, aside, registry>>

\* DELETE /chat/sessions/{session_id} (src/main.py, delete_chat_session)
delete_chat_session(user_id, session_id) ==
  LET session == get_session(sessions, session_id)
      outcome == IF ~validate_session(session_id) THEN "400 session id"
                 ELSE IF session = 0 THEN "404"
                 ELSE IF sessions[session].user_id # user_id THEN "403"
                 ELSE "deleted"
  IN /\ sessions' = IF outcome = "deleted"
                    THEN [sessions EXCEPT ![session].is_active = FALSE,
                                          ![session].updated_at = now]
                    ELSE sessions
     /\ last' = [NoRequest EXCEPT !.via = "delete", !.user = user_id, !.outcome = outcome]
     /\ UNCHANGED <<now, aside, security, messages, tasks, done, invoked, registry>>

(***************************************************************************)
(* The WebSocket endpoint (src/websocket_chat.py)                          *)
(***************************************************************************)
\* the handshake of websocket_endpoint for an authenticated user
WsConnect(user_id, session_id) ==
  LET found == IF session_id # <<>> THEN get_session(sessions, session_id) ELSE 0
      ss1 == IF session_id = <<>> THEN create_session(sessions, user_id, now) ELSE sessions
      bound == IF session_id = <<>> THEN ss1[Len(ss1)].session_id ELSE session_id
      rejected == session_id # <<>> /\ (found = 0 \/ sessions[found].user_id # user_id)
  IN /\ active_connections' = [active_connections EXCEPT ![user_id] = Len(sockets) + 1]
     /\ IF rejected
        THEN /\ sockets' = Append(sockets, [user_id |-> user_id, session_id |-> session_id,
                                            state |-> "closed"])
             /\ UNCHANGED <<sessions, user_sessions>>
        ELSE /\ sockets' = Append(sockets, [user_id |-> user_id, session_id |-> bound,
                                            state |-> "open"])
             /\ sessions' = ss1
             /\ user_sessions' = [user_sessions EXCEPT ![user_id] = bound]
     /\ UNCHANGED <<now, aside, security, messages, tasks, done, invoked, last>>

\* WsMessage that receives the next event while a turn of the socket is
\* still suspended
WsMessage_eager(ws, message, r1, r2) ==
  LET sock == sockets[ws]
      task == NewTask("ws", ws, invoked + 1, sock.user_id, sock.session_id,
                      Sanitized[message], TRUE, FALSE)
  IN /\ sock.state = "open"
     /\ Validated[message]
     /\ last' = [NoRequest EXCEPT !.via = "ws", !.user = sock.user_id,
                                  !.outcome = "invoke", !.validated = TRUE]
     /\ invoked' = invoked + 1
     /\ Proceed(process_message(sessions, messages, contexts, task, r1, r2, now))
     /\ UNCHANGED <<now, aside, security, registry>>

\* one inbound `message` event on socket ws, from receive_text to the reply
\* or to the first yield of its turn; the handler awaits the turn before it
\* receives again
WsMessage(ws, message, r1, r2) ==
  LET sock == sockets[ws]
      task == NewTask("ws", ws, invoked + 1, sock.user_id, sock.session_id,
                      Sanitized[message], TRUE, FALSE)
  IN /\ sock.state = "open"
     /\ \A tk \in tasks : tk.socket # ws
     /\ IF ~Validated[message]
        THEN /\ last' = [NoRequest EXCEPT !.via = "ws", !.user = sock.user_id,
                                          !.outcome = "error"]
             /\ UNCHANGED store
        ELSE /\ last' = [NoRequest EXCEPT !.via = "ws", !.user = sock.user_id,
                                          !.outcome = "invoke", !.validated = TRUE]
             /\ invoked' = invoked + 1
             /\ Proceed(process_message(sessions, messages, contexts, task, r1, r2, now))
     /\ UNCHANGED <<now, aside, security, registry>>

\* the handler of a closed connection drops the turns it is awaiting
WsDisconnect_cancel(ws) ==
  /\ sockets[ws].state = "open"
  /\ sockets' = [sockets EXCEPT ![ws].state = "closed"]
  /\ tasks' = {tk \in tasks : tk.socket # ws}
  /\ UNCHANGED <<now, aside, security, sessions, messages, done, invoked,
                 active_connections, user_sessions, last>>

\* the client of socket ws disconnects.  A handler waiting in receive_text
\* gets WebSocketDisconnect and leaves its loop; a handler awaiting a turn
\* goes on awaiting it, and its send_text fails when the turn has returned.
\* Either way the handler ends in `finally`, where hasattr(websocket,
\* 'user_id') is false (nothing sets that attribute), so that
\* manager.disconnect is not called.
WsDisconnect(ws) ==
  /\ sockets[ws].state = "open"
  /\ sockets' = [sockets EXCEPT ![ws].state = "closed"]
  /\ tasks' = {IF tk.socket = ws THEN [tk EXCEPT !.disconnected = TRUE] ELSE tk :
                 tk \in tasks}
  /\ UNCHANGED <<now, aside, security, sessions, messages, done, invoked,
                 active_connections, user_sessions, last>>

\* the web_search a turn is suspended in returns: the turn runs on to its
\* next yield or to its return
ToolReturn(tk, result, r2) ==
  LET tc == tk.tool_calls[tk.idx]
      resumed == [tk EXCEPT !.ran = Append(@, tc.id),
                            !.llm_messages = Append(@, [role |-> "tool",
                                                       content |-> result,
                                                       tool_call_id |-> tc.id])]
  IN /\ tk.pc = "tool"
     /\ Proceed(Complete(sessions, messages, RunTools(resumed, tk.idx + 1, r2), now))
     /\ UNCHANGED <<now, aside, security, registry, invoked, last>>

(***************************************************************************)
(* SpecGate: the rate gate under POST /chat requests of several users and  *)
(* origins while the clock advances.  The model answers every turn at      *)
(* once, without tool calls.                                               *)
(***************************************************************************)
PlainReply == [fail |-> FALSE, content |-> <<"r">>, usage |-> 1, tool_calls |-> <<>>]

GateMsgs == {MsgHello}

\* a request that would start a turn beyond MaxGateReq is not submitted
GateRequest ==
  \E user_id \in Users, message \in GateMsgs :
    /\ \/ invoked < MaxGateReq
       \/ ChatGate(user_id, "ip1", message, <<>>, request_counts, suspicious_ips,
                   blocked_ips, now).outcome # "invoke"
    /\ chat_with_bot(user_id, "ip1", message, <<>>, PlainReply, PlainReply)

NextGate == Tick \/ GateRequest

SpecGate == Init /\ [][NextGate]_vars

(***************************************************************************)
(* Spec: turns of a user over POST /chat, with every kind of model         *)
(* response and with web searches that suspend a turn while other requests *)
(* are served.  The clock stands still.                                    *)
(***************************************************************************)
Call(id, name, arguments) == [id |-> id, name |-> name, arguments |-> arguments]

FailReply == [fail |-> TRUE, content |-> <<>>, usage |-> Null, tool_calls |-> <<>>]

CallSearch ==
  [fail |-> FALSE, content |-> <<>>, usage |-> 1,
   tool_calls |-> <<Call("c1", "web_search", "ok")>>]

CallCalcSearch ==
  [fail |-> FALSE, content |-> <<>>, usage |-> 1,
   tool_calls |-> <<Call("c1", "calculate", "ok"), Call("c2", "web_search", "ok")>>]

CallBad ==
  [fail |-> FALSE, content |-> <<>>, usage |-> 1,
   tool_calls |-> <<Call("c1", "calculate", "bad")>>]

CallUnknown ==
  [fail |-> FALSE, content |-> <<>>, usage |-> 1,
   tool_calls |-> <<Call("c1", "nosuch", "ok")>>]

FinalReply == [fail |-> FALSE, content |-> <<"f">>, usage |-> 2, tool_calls |-> <<>>]

FinalWithCalls ==
  [fail |-> FALSE, content |-> <<"f">>, usage |-> 2,
   tool_calls |-> <<Call("c9", "calculate", "ok")>>]

\* the responses of the first and of the second model invocation of a turn
Responses1 == {FailReply, PlainReply, CallCalcSearch, CallBad, CallUnknown}

Responses2 == {FailReply, FinalReply, FinalWithCalls}

SearchResult == <<"Search results">>

TurnMsgs == {MsgHello, MsgAmp}

KnownSids == {sessions[i].session_id : i \in 1..Len(sessions)}

\* a turn answered r1 makes its second model call before it yields
NeedsSecond(r1) ==
  /\ ~r1.fail
  /\ r1.tool_calls # <<>>
  /\ \A i \in 1..Len(r1.tool_calls) :
       r1.tool_calls[i].arguments = "ok" /\ ~Suspends(r1.tool_calls[i].name)

\* responses are drawn for the model calls that are made: where none is made,
\* r1 and r2 are fixed to one value
Drawn(starts, r1, r2) ==
  /\ starts \/ r1 = PlainReply
  /\ (starts /\ NeedsSecond(r1)) \/ r2 = FinalReply

\* a POST /chat request; one that would start a turn beyond MaxReq is not submitted
RestRequest ==
  \E message \in TurnMsgs, session_id \in {<<>>} \cup KnownSids,
     r1 \in Responses1, r2 \in Responses2 :
    LET starts == ChatGate(1, "ip1", message, session_id, request_counts, suspicious_ips,
                           blocked_ips, now).outcome = "invoke"
    IN /\ invoked < MaxReq \/ ~starts
       /\ Drawn(starts, r1, r2)
       /\ chat_with_bot(1, "ip1", message, session_id, r1, r2)

\* a suspended turn is resumed
Resume == \E tk \in tasks, r2 \in Responses2 : ToolReturn(tk, SearchResult, r2)

Next == RestRequest \/ Resume

Spec == Init /\ [][Next]_vars

(***************************************************************************)
(* SpecWs: two users over POST /chat and the WebSocket endpoint; the model *)
(* answers a turn at once or asks for a web search.                        *)
(***************************************************************************)
WsUsers == {1, 2}

WsResponses == {PlainReply, CallSearch}

\* a POST /chat request of user 1
WsRest ==
  \E session_id \in {<<>>} \cup KnownSids, r1 \in WsResponses :
    /\ \/ invoked < MaxReq
       \/ ChatGate(1, "ip1", MsgHello, session_id, request_counts, suspicious_ips,
                   blocked_ips, now).outcome # "invoke"
    /\ chat_with_bot(1, "ip1", MsgHello, session_id, r1, FinalReply)

\* a WebSocket connection is opened
Connect ==
  /\ Len(sockets) < MaxSockets
  /\ \E user_id \in WsUsers, session_id \in {<<>>} \cup KnownSids :
       WsConnect(user_id, session_id)

\* a `message` event arrives on an open socket
SocketMessage ==
  \E ws \in 1..Len(sockets), message \in TurnMsgs :
    /\ invoked < MaxReq \/ ~Validated[message]
    /\ \E r1 \in WsResponses : WsMessage(ws, message, r1, FinalReply)

\* a suspended turn is resumed
ResumeWs == \E tk \in tasks : ToolReturn(tk, SearchResult, FinalReply)

NextWs == WsRest \/ Connect \/ SocketMessage \/ ResumeWs

SpecWs == Init /\ [][NextWs]_vars

(***************************************************************************)
(* SpecSocket: WebSocket connections only, with every kind of model        *)
(* response and with turns that are suspended in a web search.             *)
(***************************************************************************)
\* a `message` event arrives on an open socket
SocketTurn ==
  \E ws \in 1..Len(sockets), message \in TurnMsgs,
     r1 \in Responses1 \cup {CallSearch}, r2 \in Responses2 :
    /\ invoked < MaxReq \/ ~Validated[message]
    /\ Drawn(Validated[message], r1, r2)
    /\ WsMessage(ws, message, r1, r2)

NextSocket == Connect \/ SocketTurn \/ Resume

SpecSocket == Init /\ [][NextSocket]_vars

(***************************************************************************)
(* SpecErr: requests that are rejected: over-long messages and malformed   *)
(* session ids over POST /chat, over-long messages and unknown sessions    *)
(* over the WebSocket endpoint.  The model answers at once.                *)
(***************************************************************************)
ErrMsgs == {MsgHello, MsgMaxLen, MsgTooLong, MsgAmp, MsgPadded}

\* a POST /chat request of user 1
ErrRest ==
  \E message \in ErrMsgs, session_id \in {<<>>, MalformedSid} :
    /\ \/ invoked < MaxReq
       \/ ChatGate(1, "ip1", message, session_id, request_counts, suspicious_ips,
                   blocked_ips, now).outcome # "invoke"
    /\ chat_with_bot(1, "ip1", message, session_id, PlainReply, FinalReply)

\* user 1 opens a WebSocket connection
ErrConnect ==
  /\ Len(sockets) < MaxSockets
  /\ \E session_id \in {<<>>, UnknownSid} : WsConnect(1, session_id)

\* a `message` event arrives on an open socket
ErrSocketMessage ==
  \E ws \in 1..Len(sockets), message \in ErrMsgs :
    /\ invoked < MaxReq \/ ~Validated[message]
    /\ WsMessage(ws, message, PlainReply, FinalReply)

NextErr == ErrRest \/ ErrConnect \/ ErrSocketMessage

SpecErr == Init /\ [][NextErr]_vars

(***************************************************************************)
(* SpecSession: how POST /chat resolves the session it is given: none, an  *)
(* unknown one, one of the user, one of another user, a deleted one; and   *)
(* a SessionStore that raises.  The model answers at once.                 *)
(***************************************************************************)
\* a POST /chat request of user 1
SessionRest ==
  /\ invoked < MaxReq
  /\ \E session_id \in {<<>>, UnknownSid} \cup KnownSids :
       chat_with_bot(1, "ip1", MsgHello, session_id, PlainReply, FinalReply)

\* a POST /chat request of user 2 that names an existing session
SessionOther ==
  /\ invoked < MaxReq
  /\ \E session_id \in KnownSids :
       chat_with_bot(2, "ip1", MsgHello, session_id, PlainReply, FinalReply)

\* a POST /chat request of user 1 during which the SessionStore raises
StoreDown ==
  /\ invoked < MaxReq
  /\ \E session_id \in {<<>>} \cup KnownSids, at \in {"resolve", "user"} :
       chat_with_bot_store_down(1, "ip1", MsgHello, session_id, at)

\* a user deletes a session of theirs
DeleteSession ==
  \E i \in 1..Len(sessions) :
    delete_chat_session(sessions[i].user_id, sessions[i].session_id)

NextSession == SessionRest \/ SessionOther \/ StoreDown \/ DeleteSession

SpecSession == Init /\ [][NextSession]_vars

(***************************************************************************)
(* SpecConn: the connections of one user: a connection is opened while     *)
(* another is live, connections are closed by the client, also while a     *)
(* turn is suspended in a web search, and a handshake is rejected.         *)
(***************************************************************************)
\* user 1 opens a connection, also while one is live
Reconnect ==
  /\ Len(sockets) < MaxSockets + 1
  /\ \E session_id \in {<<>>, UnknownSid} \cup KnownSids : WsConnect(1, session_id)

\* a `message` event arrives on a live connection
ConnMessage ==
  /\ invoked < MaxReq
  /\ \E ws \in 1..Len(sockets), r1 \in WsResponses :
       WsMessage(ws, MsgHello, r1, FinalReply)

\* the client of a live connection disconnects
Disconnect == \E ws \in 1..Len(sockets) : WsDisconnect(ws)

NextConn == Reconnect \/ ConnMessage \/ ResumeWs \/ Disconnect

SpecConn == Init /\ [][NextConn]_vars

(***************************************************************************)
(* SpecText: sanitize_input applied to every text of at most TextLen       *)
(* characters of Alphabet, and again to its own result.                    *)
(***************************************************************************)
TextLen == 3

MaxPasses == 2

\* a letter, a character html.escape replaces, whitespace and the brackets of a tag
Alphabet == {"a", "&", " ", "<", ">"}

ShortTexts == UNION {[1..n -> Alphabet] : n \in 0..TextLen}

\* the first call, sanitize_input(raw)
SanitizeCall ==
  \E raw \in ShortTexts :
    /\ sanitizing = NoText
    /\ sanitizing' = [raw |-> raw, value |-> sanitize_input(raw), passes |-> 1]
    /\ UNCHANGED <<now, security, store, registry, last, contexts, listing>>

\* sanitize_input is called again on the text it returned
SanitizeAgain ==
  /\ sanitizing.passes \in 1..(MaxPasses - 1)
  /\ sanitizing' = [sanitizing EXCEPT !.value = sanitize_input(@), !.passes = @ + 1]
  /\ UNCHANGED <<now, security, store, registry, last, contexts, listing>>

NextText == SanitizeCall \/ SanitizeAgain

SpecText == Init /\ [][NextText]_vars

(***************************************************************************)
(* SpecContext: the conversation context of two sessions is saved and      *)
(* updated while the clock advances.                                       *)
(***************************************************************************)
\* the sessions whose context is written
ContextSids == {Uuid(1), Uuid(2)}

\* the names given to update_context
UserNames == {None, "", "ann", "bob"}

\* the preferences given to update_context, a dict as the set of its items;
\* the empty set is None or an empty dict
Preferences == {{}, {<<"theme", "dark">>}, {<<"theme", "light">>}}

\* the dicts given to save_context
ContextDicts ==
  {ContextData({}, "", {}, ""),
   ContextData({"topic"}, "", {}, "billing"),
   ContextData({"user_name", "topic"}, "ann", {}, "billing")}

SaveContext(session_id, context_data) ==
  /\ contexts' = save_context(contexts, session_id, context_data, now)
  /\ UNCHANGED <<now, security, store, registry, last, sanitizing, listing>>

UpdateContext(session_id, user_name, preferences) ==
  /\ contexts' = update_context(contexts, session_id, user_name, preferences, now)
  /\ UNCHANGED <<now, security, store, registry, last, sanitizing, listing>>

ContextSave ==
  \E session_id \in ContextSids, context_data \in ContextDicts :
    SaveContext(session_id, context_data)

ContextUpdate ==
  \E session_id \in ContextSids, user_name \in UserNames, preferences \in Preferences :
    UpdateContext(session_id, user_name, preferences)

NextContext == ContextSave \/ ContextUpdate \/ Tick

SpecContext == Init /\ [][NextContext]_vars

(***************************************************************************)
(* SpecPrompt: turns of user 1 over POST /chat in sessions that have a     *)
(* history and a saved context, answered without tool calls.               *)
(***************************************************************************)
\* at most MaxPromptReq turns are started in a run of SpecPrompt: the last
\* finds more than history_limit rows in its session
MaxPromptReq == history_limit \div 2 + 1

\* a POST /chat request of user 1 in a new or an existing session
PromptRest ==
  /\ invoked < MaxPromptReq
  /\ \E session_id \in {<<>>} \cup KnownSids :
       chat_with_bot(1, "ip1", MsgHello, session_id, PlainReply, FinalReply)

\* save_context for an existing session
PromptContext ==
  \E session_id \in KnownSids, context_data \in ContextDicts :
    SaveContext(session_id, context_data)

NextPrompt == PromptRest \/ PromptContext \/ Tick

SpecPrompt == Init /\ [][NextPrompt]_vars

(***************************************************************************)
(* SpecHistory: turns of user 1 over POST /chat, and users 1 and 2 read    *)
(* the messages of sessions.                                               *)
(***************************************************************************)
\* GET /chat/sessions/{session_id}/messages
get_session_messages(user_id, session_id) ==
  LET session == get_session(sessions, session_id)
      outcome == IF ~validate_session(session_id) THEN "400 session id"
                 ELSE IF session = 0 THEN "404"
                 ELSE IF sessions[session].user_id # user_id THEN "403"
                 ELSE "200"
  IN /\ listing' = IF outcome = "200"
                   THEN [outcome |-> outcome, session |-> session,
                         messages |-> get_conversation_history(messages, session)]
                   ELSE [NoListing EXCEPT !.outcome = outcome]
     /\ UNCHANGED <<now, security, store, registry, last, contexts, sanitizing>>

\* a user reads the messages of a session
HistoryGet ==
  \E user_id \in {1, 2}, session_id \in {MalformedSid, UnknownSid} \cup KnownSids :
    get_session_messages(user_id, session_id)

NextHistory == PromptRest \/ HistoryGet \/ Tick

SpecHistory == Init /\ [][NextHistory]_vars

(***************************************************************************)
(* SpecCleanup: sessions are created by turns and by handshakes, time      *)
(* passes and cleanup_expired_sessions runs.                               *)
(***************************************************************************)
\* cleanup_expired_sessions: the active rows whose updated_at is before the
\* cutoff are deactivated (the UPDATE sets their updated_at); a row whose
\* updated_at is NULL does not satisfy `updated_at < cutoff_time`
cleanup_expired_sessions(ss, t) ==
  LET cutoff_time == t - session_timeout
      expired_sessions == {i \in 1..Len(ss) : /\ ss[i].updated_at # Null
                                              /\ ss[i].updated_at < cutoff_time
                                              /\ ss[i].is_active}
  IN [i \in 1..Len(ss) |->
        IF i \in expired_sessions
        THEN [ss[i] EXCEPT !.is_active = FALSE, !.updated_at = t]
        ELSE ss[i]]

\* a run of cleanup_expired_sessions
Sweep ==
  /\ sessions' = cleanup_expired_sessions(sessions, now)
  /\ UNCHANGED <<now, aside, security, messages, tasks, done, invoked, registry, last>>

\* a POST /chat request of user 1 in a new or an existing session
CleanupRest ==
  /\ invoked < MaxReq
  /\ \E session_id \in {<<>>} \cup KnownSids :
       chat_with_bot(1, "ip1", MsgHello, session_id, PlainReply, FinalReply)

\* a handshake of user 1 that names no session: one is created for it
CleanupConnect ==
  /\ Len(sockets) < MaxSockets
  /\ WsConnect(1, <<>>)

NextCleanup == CleanupRest \/ CleanupConnect \/ Tick \/ Sweep

SpecCleanup == Init /\ [][NextCleanup]_vars

(***************************************************************************)
(* SpecDeactivate: user 1 has turns over a WebSocket connection, also      *)
(* suspended in a web search, while sessions are deleted and               *)
(* cleanup_expired_sessions runs.                                          *)
(***************************************************************************)
\* user 1 opens a connection, for a new or an existing session
DeactConnect ==
  /\ Len(sockets) < MaxSockets
  /\ \E session_id \in {<<>>} \cup KnownSids : WsConnect(1, session_id)

\* a `message` event arrives on the connection
DeactMessage ==
  /\ invoked < MaxReq
  /\ \E ws \in 1..Len(sockets), r1 \in WsResponses :
       WsMessage(ws, MsgHello, r1, FinalReply)

NextDeactivate ==
  DeactConnect \/ DeactMessage \/ ResumeWs \/ DeleteSession \/ Sweep \/ Tick

SpecDeactivate == Init /\ [][NextDeactivate]_vars

(***************************************************************************)
(* SpecIsolation: two users name sessions of their own and of each other,  *)
(* over POST /chat and at the WebSocket handshake; turns may be suspended  *)
(* in a web search.                                                        *)
(***************************************************************************)
\* a POST /chat request of either user, in a new session or naming any session
IsolationRest ==
  /\ invoked < MaxReq
  /\ \E user_id \in WsUsers, session_id \in {<<>>} \cup KnownSids, r1 \in WsResponses :
       chat_with_bot(user_id, "ip1", MsgHello, session_id, r1, FinalReply)

\* user 2 opens a connection, for a new session or naming any session
IsolationConnect ==
  /\ Len(sockets) < MaxSockets
  /\ \E session_id \in {<<>>} \cup KnownSids : WsConnect(2, session_id)

\* a `message` event arrives on the connection
IsolationMessage ==
  /\ invoked < MaxReq
  /\ \E ws \in 1..Len(sockets) : WsMessage(ws, MsgHello, PlainReply, FinalReply)

NextIsolation == IsolationRest \/ IsolationConnect \/ IsolationMessage \/ ResumeWs

SpecIsolation == Init /\ [][NextIsolation]_vars

(***************************************************************************)
(* SpecDetect: detect_suspicious_activity and record_request called on the *)
(* SecurityManager, for messages of every score, while the clock advances. *)
(***************************************************************************)
MaxSuspicion == 2

DetectMsgs == {MsgHello, MsgRepeat, MsgThrice, MsgMeta}

\* one call security_manager.detect_suspicious_activity(message, user_id, ip_address)
DetectCall(user_id, ip_address, message) ==
  LET det == detect_suspicious_activity(TextScores[message], user_id, ip_address,
                                        request_counts, suspicious_ips, blocked_ips, now)
  IN /\ suspicious_ips' = det.suspicious_ips
     /\ blocked_ips' = det.blocked_ips
     /\ last' = [NoRequest EXCEPT !.via = "detect", !.user = user_id, !.ip = ip_address,
                                  !.outcome = IF det.ret THEN "true" ELSE "false"]
     /\ UNCHANGED <<now, aside, request_counts, store, registry>>

\* a call of detect_suspicious_activity; an origin is not counted beyond MaxSuspicion
Detect ==
  \E ip_address \in Origins, message \in DetectMsgs :
    /\ suspicious_ips[ip_address] < MaxSuspicion
    /\ DetectCall(1, ip_address, message)

\* a call of record_request for user 1
Record ==
  /\ Len(request_counts[UserKey(1)]) <= RapidLimit
  /\ request_counts' = record_request(request_counts, 1, "ip1", now)
  /\ UNCHANGED <<now, aside, blocked_ips, suspicious_ips, store, registry, last>>

NextDetect == Detect \/ Record \/ Tick

SpecDetect == Init /\ [][NextDetect]_vars

(***************************************************************************)
(* SpecBlocked: POST /chat requests of user 1 from origins that calls of   *)
(* detect_suspicious_activity block, while the clock advances.             *)
(***************************************************************************)
BlockedMsgs == {MsgHello, MsgTooLong}

\* a POST /chat request of user 1 from any origin
BlockedRest ==
  \E client_ip \in Origins, message \in BlockedMsgs :
    /\ \/ invoked < MaxReq
       \/ ChatGate(1, client_ip, message, <<>>, request_counts, suspicious_ips,
                   blocked_ips, now).outcome # "invoke"
    /\ chat_with_bot(1, client_ip, message, <<>>, PlainReply, FinalReply)

NextBlocked == Detect \/ BlockedRest \/ Tick

SpecBlocked == Init /\ [][NextBlocked]_vars

(***************************************************************************)
(* Properties                                                              *)
(***************************************************************************)
\* the number of timestamps of a window inside the trailing window
InWindow(key) == Len(After(request_counts[key], now - rate_limit_window))

\* a is b with some entries left out at most: no entry is new
Within(a, b) ==
  /\ Len(a) <= Len(b)
  /\ \A i \in 1..Len(a) : \E j \in 1..Len(b) : a[i] = b[j]

\* C1: a POST /chat request that reaches the rate gate is let through exactly
\* when fewer than C timestamps of its user and fewer than 2C timestamps of
\* its origin lie inside the trailing window W: at a ceiling check_rate_limit
\* returns false, and once W has elapsed since the recorded timestamps it
\* returns true again.
C1_RateCeiling ==
  [][(now' = now /\ last'.via = "rest" /\ last'.rl # "none")
       => (last'.rl = "true"
             <=> /\ InWindow(UserKey(last'.user)) < max_requests_per_hour
                 /\ InWindow(IpKey(last'.ip)) < 2 * max_requests_per_hour)]_vars

\* user 1 has filled the window, W has elapsed, and the next request was let
\* through against a window that holds nothing but its own timestamp
C1_Readmitted ==
  /\ last.via = "rest" /\ last.user = 1 /\ last.rl = "true"
  /\ Cardinality({i \in 1..Len(sessions) : sessions[i].user_id = 1}) > max_requests_per_hour
  /\ request_counts[UserKey(1)] = <<now>>

\* C2: check_rate_limit adds no timestamp to any window, and a POST /chat
\* request rejected for rate limiting or for suspicious activity leaves no
\* window with more timestamps than before.
C2_RejectedNotRecorded ==
  /\ [](\A user_id \in Users, ip \in Origins, k \in DOMAIN request_counts :
          Within(check_rate_limit(request_counts, user_id, ip, now).rc[k],
                 request_counts[k]))
  /\ [][(now' = now /\ last'.via = "rest" /\ last'.outcome \in {"429", "400 suspicious"})
          => \A k \in DOMAIN request_counts :
               Len(request_counts'[k]) <= Len(request_counts[k])]_vars

\* a request of a user who is below the ceiling was refused at the origin's
\* ceiling
C2_RefusedAtOrigin ==
  /\ last.via = "rest" /\ last.outcome = "429"
  /\ InWindow(UserKey(last.user)) < max_requests_per_hour
  /\ InWindow(IpKey(last.ip)) >= 2 * max_requests_per_hour

\* C3: every process_message invocation, from POST /chat or from a WebSocket
\* `message` event, is for a message that was validated and admitted by the
\* rate gate (check_rate_limit returned true and record_request was called).
C3_InvokedOnlyWhenAdmitted ==
  \A tk \in tasks \cup {done} : tk.req > 0 => tk.validated /\ tk.admitted

\* C4: with turns in flight, each admitted POST /chat request adds exactly
\* one timestamp to its user's window and one to its origin's window and
\* changes no other window, and no user has more than C timestamps inside
\* the trailing window.
C4_AdmissionsCounted ==
  /\ [](\A user_id \in Users : InWindow(UserKey(user_id)) <= max_requests_per_hour)
  /\ [][(invoked' = invoked + 1 /\ last'.via = "rest")
          => LET u == UserKey(last'.user)
                 o == IpKey(last'.ip)
                 cutoff_time == now - rate_limit_window
             IN /\ request_counts'[u] = Append(After(request_counts[u], cutoff_time), now)
                /\ request_counts'[o] = Append(After(request_counts[o], cutoff_time), now)
                /\ \A k \in DOMAIN request_counts \ {u, o} :
                     request_counts'[k] = request_counts[k]]_vars

\* a second request was admitted while the turn of the first was suspended
C4_AdmittedWhileInFlight ==
  /\ tasks # {}
  /\ last.via = "rest" /\ last.outcome = "invoke"
  /\ Len(request_counts[UserKey(1)]) = max_requests_per_hour

\* the rows written for turn req, in the order of the table
RowsOf(req) == SelectSeq(messages, LAMBDA m : m.req = req)

Roles(rows) == [i \in 1..Len(rows) |-> rows[i].role]

\* the turn ended in the error reply of the model client
Failed(tk) == \E e \in {TransportError, DecodeError} : tk.response.message = ErrorReply(e)

\* C5: a finished turn whose first model response carries no tool calls and
\* in which nothing failed has made exactly one model invocation, and
\* exactly two rows are persisted for it, in its session: a `user` row
\* followed by an `assistant` row.
C5_PlainTurn ==
  (done.req > 0 /\ done.calls[1].requested = <<>> /\ ~Failed(done))
    => /\ Len(done.calls) = 1
       /\ Roles(RowsOf(done.req)) = <<"user", "assistant">>
       /\ \A i \in 1..Len(RowsOf(done.req)) : RowsOf(done.req)[i].session_id = done.session

\* a turn answered without tool calls has finished while another turn of the
\* same session is suspended
C5_PlainTurnDone ==
  /\ done.req > 0 /\ done.calls[1].requested = <<>> /\ ~Failed(done)
  /\ \E tk \in tasks : tk.session = done.session

\* C6: for every assistant row that records k tool calls, k `tool`-role rows
\* are persisted for the same turn in the same session.
C6_ToolTurnsPersisted ==
  \A i \in 1..Len(messages) :
    messages[i].role = "assistant"
      => Cardinality({j \in 1..Len(messages) :
                        /\ messages[j].role = "tool"
                        /\ messages[j].req = messages[i].req
                        /\ messages[j].session_id = messages[i].session_id})
           = Len(messages[i].tool_calls)

\* C7: a finished turn that made two model invocations, none of which
\* failed, returns and stores as tokens_used the sum of the usage of both.
C7_TokensSummed ==
  (done.req > 0 /\ Len(done.calls) = 2 /\ ~Failed(done))
    => /\ done.response.tokens_used = done.u1 + done.u2
       /\ RowsOf(done.req)[Len(RowsOf(done.req))].tokens_used = done.u1 + done.u2

\* C8: a turn makes at most two model invocations; the second follows a
\* first response with tool calls and offers no tool catalogue; only tool
\* calls of the first response are ever executed.
C8_TwoRounds ==
  \A tk \in tasks \cup {done} :
    /\ Len(tk.calls) <= 2
    /\ Len(tk.calls) = 2 => tk.calls[1].requested # <<>> /\ ~tk.calls[2].tools
    /\ \A i \in 1..Len(tk.ran) :
         \E j \in 1..Len(tk.calls[1].requested) : tk.calls[1].requested[j].id = tk.ran[i]

\* a turn has finished whose second model response asked for tool calls
C8_SecondAsksForTools ==
  /\ done.req > 0 /\ Len(done.calls) = 2
  /\ done.calls[2].requested # <<>>
  /\ done.ran # <<>>

\* C9: in every session the rows appear in the order in which their requests
\* were admitted: no row of a later request precedes a row of an earlier one.
C9_AdmissionOrder ==
  \A i, j \in 1..Len(messages) :
    (i < j /\ messages[i].session_id = messages[j].session_id)
      => messages[i].req <= messages[j].req

\* C10: in no session are the user row and the assistant row of a request
\* separated by a row of a request that arrived the other way (POST /chat
\* against WebSocket).
C10_WritesSerialized ==
  \A i, j, k \in 1..Len(messages) :
    ~ /\ i < j /\ j < k
      /\ messages[i].session_id = messages[j].session_id
      /\ messages[j].session_id = messages[k].session_id
      /\ messages[i].req = messages[k].req
      /\ messages[j].req # messages[i].req
      /\ messages[j].via # messages[i].via

\* C11: on one WebSocket connection at most one turn is in progress, and the
\* rows written for one turn of a connection are never separated by a row
\* of another turn of the same connection.
C11_SocketTurnsSequential ==
  /\ \A ws \in 1..Len(sockets) : Cardinality({tk \in tasks : tk.socket = ws}) <= 1
  /\ \A i, j, k \in 1..Len(messages) :
       (/\ i < j /\ j < k
        /\ messages[i].socket > 0
        /\ messages[i].socket = messages[j].socket
        /\ messages[i].socket = messages[k].socket
        /\ messages[i].req = messages[k].req)
         => messages[j].req = messages[i].req

\* a connection has finished a second turn after a first one that was
\* suspended in a tool call
C11_SecondTurnAfterSuspended ==
  /\ done.socket > 0
  /\ \E i \in 1..Len(messages) :
       /\ messages[i].socket = done.socket
       /\ messages[i].req < done.req
       /\ messages[i].role = "assistant"
       /\ messages[i].tool_calls # <<>>

\* C12: a process_message call during which the SessionStore raised ends by
\* raising to its caller; it returns no reply.
C12_StoreFailurePropagates ==
  done.store_error => (done.raised /\ done.response = NoResponse)


\* C13: a turn in which the model client failed ends without raising and with
\* the user row persisted, and its reply is one fixed apology: the same text as
\* the reply of the failed turn that finished before it.
C13_FixedApology ==
  [][(Failed(done') /\ done'.req # done.req)
       => /\ ~done'.raised
          /\ \E i \in 1..Len(messages') :
               messages'[i].req = done'.req /\ messages'[i].role = "user"
          /\ Failed(done) => done'.response.message = done.response.message]_vars

\* C14: a finished turn whose first model response asked for tool calls has
\* executed every one of them, whatever failed in handling one, and has made
\* the second model invocation.
C14_ToolFailureNotFatal ==
  (done.req > 0 /\ done.calls # <<>> /\ done.calls[1].requested # <<>>)
    => /\ Len(done.ran) = Len(done.calls[1].requested)
       /\ Len(done.calls) = 2

\* the outcomes with which POST /chat and the socket's message loop reject a
\* request for a validation, rate-limit or security reason
Rejections == {"403", "400", "429", "400 suspicious", "400 session id", "error"}

\* C15: a step in which a request handler rejects a request for a
\* validation, rate-limit or security reason leaves the sessions and the
\* message rows as they were.
C15_RejectedNotPersisted ==
  [][(registry' = registry /\ last'.outcome \in Rejections)
       => UNCHANGED <<sessions, messages>>]_vars

\* a request is refused by the rate limit after turns of the user were stored
C15_LimitedAfterTurns ==
  /\ last.via = "rest" /\ last.outcome = "429"
  /\ Len(messages) > 0 /\ Len(sessions) > 0

\* C16: a POST /chat request whose message is one character longer than
\* max_message_length is answered 400 and leaves the rate windows, the
\* sessions and the message rows as they were; a message of exactly
\* max_message_length characters is not answered 400.
C16_TooLongRejected ==
  [][\A session_id \in {<<>>, MalformedSid} :
       /\ chat_with_bot(1, "ip1", MsgTooLong, session_id, PlainReply, FinalReply)
            => /\ last'.outcome = "400"
               /\ UNCHANGED <<request_counts, sessions, messages>>
       /\ chat_with_bot(1, "ip1", MsgMaxLen, session_id, PlainReply, FinalReply)
            => last'.outcome # "400"]_vars

\* a too long message was refused after a turn of the user had been stored
\* and recorded
C16_TooLongAfterTurn ==
  /\ last.via = "rest" /\ last.outcome = "400"
  /\ Len(messages) > 0
  /\ Len(request_counts[UserKey(1)]) > 0

\* C17: a step in which POST /chat rejects a request for its malformed
\* session id invokes no process_message and leaves the rate windows, the
\* sessions and the message rows as they were.
C17_MalformedSidNoMutation ==
  [][(registry' = registry /\ last'.outcome = "400 session id")
       => UNCHANGED <<request_counts, sessions, messages, invoked>>]_vars

\* the session a request may use: it exists, is active and belongs to the user
Usable(ss, session_id, user_id) ==
  /\ get_session(ss, session_id) # 0
  /\ ss[get_session(ss, session_id)].user_id = user_id

\* C18: a chat request that names a session which does not exist, is
\* inactive or belongs to another user creates no session and persists no
\* turn.
C18_UnusableSessionRejected ==
  [][(done'.req # done.req /\ done'.asked # <<>>
        /\ ~Usable(sessions, done'.asked, done'.user_id))
       => UNCHANGED <<sessions, messages>>]_vars

\* C19: a call of process_message uses the session it is given exactly when
\* one is given that is active and belongs to the user; otherwise it creates a
\* session of the user with an external id no session has, the default title
\* of the creation time and is_active set.  The rows of the turn are stored
\* under the session used, and its external id is the one reported.
C19_SessionResolved ==
  [][(done'.req # done.req /\ ~done'.store_error)
       => LET new == sessions'[Len(sessions')]
              rows == SelectSeq(messages', LAMBDA m : m.req = done'.req)
          IN /\ IF done'.asked # <<>> /\ Usable(sessions, done'.asked, done'.user_id)
                THEN /\ Len(sessions') = Len(sessions)
                     /\ done'.session = get_session(sessions, done'.asked)
                     /\ done'.session_id = done'.asked
                ELSE /\ Len(sessions') = Len(sessions) + 1
                     /\ new.user_id = done'.user_id
                     /\ new.is_active
                     /\ new.title = DefaultTitle(now)
                     /\ \A i \in 1..Len(sessions) : sessions[i].session_id # new.session_id
                     /\ done'.session = Len(sessions')
                     /\ done'.session_id = new.session_id
             /\ rows # <<>>
             /\ \A i \in 1..Len(rows) : rows[i].session_id = done'.session]_vars

\* a turn of user 2 that named a session of user 1 ran in a new session
C19_OthersSessionNotUsed ==
  /\ done.user_id = 2 /\ done.asked # <<>> /\ ~done.store_error
  /\ get_session(sessions, done.asked) # 0
  /\ done.session_id # done.asked
  /\ sessions[done.session].user_id = 2

\* C20: a call of detect_suspicious_activity with an origin and a message
\* that contains one denylisted pattern three times scores 30 for the text,
\* returns true and leaves the origin in blocked_ips.
C20_ThriceBlocks ==
  [][\A ip_address \in Origins :
       DetectCall(1, ip_address, MsgThrice)
         => /\ TextScores[MsgThrice] = 30
            /\ last'.outcome = "true"
            /\ ip_address \in blocked_ips']_vars

\* the state of the SecurityManager
GateState ==
  [rc |-> request_counts, susp |-> suspicious_ips, blocked |-> blocked_ips, t |-> now]

\* the SecurityManager after one POST /chat request of user_id from "ip1"
AfterRequest(s, user_id, message) ==
  LET g == ChatGate(user_id, "ip1", message, <<>>, s.rc, s.susp, s.blocked, s.t)
  IN [rc |-> g.rc, susp |-> g.suspicious_ips, blocked |-> g.blocked_ips, t |-> s.t]

RECURSIVE AfterRequests(_, _)
\* the states of the SecurityManager after at most n POST /chat requests from
\* "ip1", with any message of Texts, between which time may pass
AfterRequests(S, n) ==
  LET step == {AfterRequest(s, user_id, message) :
                 s \in S, user_id \in Users, message \in Texts}
      later == {[s EXCEPT !.t = @ + 1] : s \in {x \in S : x.t < MaxTime}}
  IN IF n = 0 \/ (step \cup later) \subseteq S THEN S
     ELSE AfterRequests(S \cup step \cup later, n - 1)

MaxSequence == 5

\* C21: from every state there is a sequence of POST /chat requests from one
\* origin after which that origin is in blocked_ips and is_ip_blocked
\* answers true for it.
C21_BlockReachable ==
  \E s \in AfterRequests({GateState}, MaxSequence) : is_ip_blocked(s.blocked, "ip1")

\* C22: a call of detect_suspicious_activity with an origin increments the
\* origin's suspicion counter exactly when the score of the call is over 5,
\* and returns true exactly when the score is over 20, in which case the
\* origin is in blocked_ips afterwards; for a score of 20 or less blocked_ips
\* is left as it was.
C22_Thresholds ==
  [][\A ip_address \in Origins, message \in DetectMsgs :
       DetectCall(1, ip_address, message)
         => LET score == suspicious_score(TextScores[message], 1, request_counts, now)
            IN /\ suspicious_ips'[ip_address]
                    = suspicious_ips[ip_address] + (IF score > 5 THEN 1 ELSE 0)
               /\ (last'.outcome = "true") <=> (score > 20)
               /\ score > 20 => ip_address \in blocked_ips'
               /\ score <= 20 => blocked_ips' = blocked_ips]_vars

\* a call was scored over 5 for a user with rapid requests and returned
\* false: the origin is counted and not blocked
C22_MarkedNotBlocked ==
  /\ last.via = "detect" /\ last.outcome = "false"
  /\ Len(request_counts[UserKey(1)]) > RapidLimit
  /\ suspicious_ips[last.ip] > 0
  /\ last.ip \notin blocked_ips

\* C23: of the connections of a user only the one registered last is live:
\* a connection that another has superseded is closed, so that none of its
\* inbound events is processed.
C23_Superseded ==
  \A ws \in 1..Len(sockets) :
    sockets[ws].state = "open" => active_connections[sockets[ws].user_id] = ws

\* C24: the registry holds a connection entry and a session binding for a
\* user only while that connection is live: once its handler has ended (the
\* client disconnected, or the handshake was rejected) neither is left.
C24_RegistryOnlyLive ==
  \A user_id \in Users :
    /\ active_connections[user_id] # 0
         => sockets[active_connections[user_id]].state = "open"
    /\ user_sessions[user_id] # <<>>
         => /\ active_connections[user_id] # 0
            /\ sockets[active_connections[user_id]].state = "open"

\* C25: a turn that arrived on a connection is never dropped or undone, also
\* when the connection is closed while the turn is in flight: its user row is
\* persisted, and either the turn is still in flight or it has finished and
\* its assistant row, with the reply of the turn, is persisted in its session.
C25_TurnOutlivesConnection ==
  \A req \in 1..invoked :
    LET rows == RowsOf(req)
    IN /\ rows # <<>>
       /\ rows[1].role = "user"
       /\ \/ \E tk \in tasks : tk.req = req /\ tk.pc # "done"
          \/ /\ rows[Len(rows)].role = "assistant"
             /\ rows[Len(rows)].session_id = rows[1].session_id

\* a turn has finished, after a web search, whose connection was closed while
\* the turn was suspended: its reply is persisted and the connection is closed
C25_FinishedAfterDisconnect ==
  /\ done.req > 0 /\ done.disconnected
  /\ sockets[done.socket].state = "closed"
  /\ done.ran # <<>>
  /\ RowsOf(done.req)[Len(RowsOf(done.req))].role = "assistant"
  /\ RowsOf(done.req)[Len(RowsOf(done.req))].content = done.response.message

\* C26: sanitize_input is idempotent: applied again to its own result it
\* returns that result.
C26_Idempotent ==
  sanitizing.passes >= 2 => sanitizing.value = sanitize_input(sanitizing.raw)

\* C27: a message is accepted, by POST /chat and by a connection's message
\* loop, only if it is not empty, has at most max_message_length characters
\* and sanitize_input returns its trimmed text; the user row persisted for it
\* holds exactly that trimmed text.
C27_FailsClosed ==
  [][\A message \in ErrMsgs :
       (/\ last'.outcome = "invoke"
        /\ \/ \E session_id \in {<<>>, MalformedSid} :
                chat_with_bot(1, "ip1", message, session_id, PlainReply, FinalReply)
           \/ \E ws \in 1..Len(sockets) : WsMessage(ws, message, PlainReply, FinalReply))
         => LET rows == SelectSeq(messages', LAMBDA m : m.req = invoked')
            IN /\ message # <<>>
               /\ Len(message) <= max_message_length
               /\ Sanitized[message] = Strip(message)
               /\ rows # <<>>
               /\ rows[1].role = "user"
               /\ rows[1].content = Strip(message)]_vars

\* the message with whitespace around it was accepted and its trimmed text
\* is the content of a user row
C27_PaddedStoredTrimmed ==
  /\ last.outcome = "invoke"
  /\ \E i \in 1..Len(messages) :
       /\ messages[i].role = "user"
       /\ messages[i].content = Strip(MsgPadded)
       /\ messages[i].content # MsgPadded

\* the context_data stored for the session in table cs, the empty dict
\* without a row
StoredContext(cs, session_id) ==
  LET hits == ContextRows(cs, session_id)
  IN IF hits = {} THEN ContextData({}, "", {}, "")
     ELSE cs[CHOOSE i \in hits : \A j \in hits : i <= j].context_data

\* every key of dict before that is not in named has its value in dict after
KeptExcept(before, after, named) ==
  \A k \in (DOMAIN before) \ named : k \in DOMAIN after /\ after[k] = before[k]

\* C28: a context update merges: after save_context and after update_context
\* every key that was stored for the session and that the update does not
\* name still has the value it had.
C28_MergeOnWrite ==
  [][/\ \A session_id \in ContextSids, context_data \in ContextDicts :
          SaveContext(session_id, context_data)
            => KeptExcept(StoredContext(contexts, session_id),
                          StoredContext(contexts', session_id), DOMAIN context_data)
     /\ \A session_id \in ContextSids, user_name \in UserNames,
           preferences \in Preferences :
          UpdateContext(session_id, user_name, preferences)
            => KeptExcept(StoredContext(contexts, session_id),
                          StoredContext(contexts', session_id),
                          GivenKeys(user_name, preferences))]_vars

\* C29: in table chat_messages a row with tool calls is a row of role
\* "assistant", and a row of role "user" has no tool calls and no token
\* count.
C29_ToolCallsOnAssistant ==
  \A i \in 1..Len(messages) :
    /\ messages[i].role \in {"user", "assistant"}
    /\ messages[i].tool_calls # <<>> => messages[i].role = "assistant"
    /\ messages[i].role = "user"
         => messages[i].tool_calls = <<>> /\ messages[i].tokens_used = Null

\* a turn is stored whose assistant row has tool calls and a token count,
\* after the user row of the same request
C29_ToolTurnStored ==
  \E i, j \in 1..Len(messages) :
    /\ i < j
    /\ messages[i].req = messages[j].req
    /\ messages[i].role = "user"
    /\ messages[j].role = "assistant"
    /\ messages[j].tool_calls # <<>>
    /\ messages[j].tokens_used # Null

\* the time of the last activity of a session: its last update, its creation
\* if it was never updated
LastActive(session) ==
  IF session.updated_at # Null THEN session.updated_at ELSE session.created_at

\* C30: a run of cleanup_expired_sessions leaves inactive every active session
\* whose last activity is more than session_timeout ago, also one that was
\* created and never had a turn, and leaves the flag of every session whose
\* last activity is less than session_timeout ago as it was.
C30_IdleDeactivated ==
  [][Sweep =>
       \A i \in 1..Len(sessions) :
         LET idle == now - LastActive(sessions[i])
         IN /\ sessions[i].is_active /\ idle > session_timeout
                 => ~sessions'[i].is_active
            /\ idle < session_timeout
                 => sessions'[i].is_active = sessions[i].is_active]_vars

\* no timestamp of the window is at or before the cutoff
Evicted(requests, cutoff_time) == \A i \in 1..Len(requests) : requests[i] > cutoff_time

\* C31: whatever check_rate_limit returns for a user and an origin, it leaves
\* neither the user's window nor the origin's window with a timestamp older
\* than now - rate_limit_window.
C31_BothWindowsEvicted ==
  \A user_id \in Users, ip \in Origins :
    LET rl == check_rate_limit(request_counts, user_id, ip, now)
    IN /\ Evicted(rl.rc[UserKey(user_id)], now - rate_limit_window)
       /\ Evicted(rl.rc[IpKey(ip)], now - rate_limit_window)

\* C32: no step takes an origin out of blocked_ips or lowers a counter of
\* suspicious_ips, so that an origin that is blocked stays blocked.
C32_Monotone ==
  [][/\ blocked_ips \subseteq blocked_ips'
     /\ \A ip \in Origins : suspicious_ips'[ip] >= suspicious_ips[ip]
     /\ \A ip \in Origins :
          is_ip_blocked(blocked_ips, ip) => is_ip_blocked(blocked_ips', ip)]_vars

\* an origin is blocked and counted, and a later call for a harmless message
\* from it at a later time has returned false
C32_BlockedThenHarmless ==
  /\ is_ip_blocked(blocked_ips, "ip1")
  /\ suspicious_ips["ip1"] > 0
  /\ now > 0
  /\ last.via = "detect" /\ last.ip = "ip1" /\ last.outcome = "false"

\* C33: a POST /chat request from an origin of blocked_ips is answered 403
\* and changes nothing: no window of request_counts, no counter of
\* suspicious_ips, no session, no message, no turn.
C33_BlockedRejectedFirst ==
  [][\A client_ip \in Origins, message \in BlockedMsgs :
       (/\ is_ip_blocked(blocked_ips, client_ip)
        /\ chat_with_bot(1, client_ip, message, <<>>, PlainReply, FinalReply))
         => /\ last'.outcome = "403"
            /\ request_counts' = request_counts
            /\ suspicious_ips' = suspicious_ips
            /\ blocked_ips' = blocked_ips
            /\ sessions' = sessions
            /\ messages' = messages
            /\ tasks' = tasks /\ done' = done /\ invoked' = invoked]_vars

\* a request from a blocked origin was answered 403 while the windows of its
\* user and of its origin held a timestamp that the rate gate would evict,
\* after an earlier turn of the user was stored
C33_RejectedWithStaleWindow ==
  /\ last.via = "rest" /\ last.outcome = "403"
  /\ is_ip_blocked(blocked_ips, last.ip)
  /\ ~Evicted(request_counts[UserKey(last.user)], now - rate_limit_window)
  /\ ~Evicted(request_counts[IpKey(last.ip)], now - rate_limit_window)
  /\ messages # <<>>

\* the last history_limit rows of the sequence, as the model is given them
Recent(rows) ==
  LET first == IF Len(rows) > history_limit THEN Len(rows) - history_limit + 1 ELSE 1
  IN [i \in 1..(Len(rows) - first + 1) |->
        [role |-> rows[first + i - 1].role, content |-> rows[first + i - 1].content]]

\* C34: the message list of the first model call of a turn is the system
\* prompt, the last history_limit rows the session held before the turn, the
\* note of the session's context if it has one, and the new user message,
\* which is in the list once.
C34_RoundOneMessages ==
  [][done'.req # done.req
       => LET turn == done'
              before == SelectSeq(messages', LAMBDA m : m.session_id = turn.session
                                                        /\ m.req < turn.req)
              context == get_context(contexts, turn.session_id)
              sent == turn.calls[1].messages
              new == [role |-> "user", content |-> turn.message]
          IN /\ sent = <<[role |-> "system", content |-> system_prompt]>>
                         \o Recent(before)
                         \o (IF DOMAIN context # {}
                             THEN <<[role |-> "system", content |-> ContextNote(context)]>>
                             ELSE <<>>)
                         \o <<new>>
             /\ Cardinality({i \in 1..Len(sent) : i > Len(Recent(before)) + 1
                                                   /\ sent[i] = new}) = 1]_vars

\* C35: GET /chat/sessions/{session_id}/messages answered to the owner of
\* the session returns every row of the session, oldest first, however many
\* rows the session has.
C35_AllMessagesListed ==
  [][\A session_id \in KnownSids :
       get_session_messages(1, session_id)
         => /\ listing'.outcome = "200"
            /\ listing'.messages
                 = Transcript(messages, get_session(sessions, session_id))]_vars

\* C36: the session_id of the `message` event that answers a turn of a
\* connection, which is the session_id the connection was bound to at its
\* handshake, is the session_id of the session that holds the rows of the
\* turn, also when that session has been deactivated in between.
C36_EventNamesSession ==
  (done.req > 0 /\ done.via = "ws")
    => LET event == [type |-> "message", content |-> done.response.message,
                     session_id |-> sockets[done.socket].session_id]
       IN /\ RowsOf(done.req) # <<>>
          /\ \A i \in 1..Len(RowsOf(done.req)) :
               sessions[RowsOf(done.req)[i].session_id].session_id = event.session_id

\* the user of the turn with number req, running or finished last
Requester(ts, d, req) == (CHOOSE tk \in ts \cup {d} : tk.req = req).user_id

\* C37: process_message never appends a row to a session that belongs to
\* another user than the one who sent the request, whatever session id the
\* request names.
C37_OwnSessionOnly ==
  [][\A i \in (Len(messages) + 1)..Len(messages') :
       /\ \E tk \in tasks' \cup {done'} : tk.req = messages'[i].req
       /\ sessions'[messages'[i].session_id].user_id
            = Requester(tasks', done', messages'[i].req)]_vars

\* user 2 named a session of user 1 that holds rows; the rows of user 2's
\* turn are in a session of user 2 and the named session holds none of them
C37_NamedAnothersSession ==
  /\ done.user_id = 2 /\ done.asked # <<>>
  /\ \E s \in 1..Len(sessions) :
       /\ sessions[s].session_id = done.asked
       /\ sessions[s].user_id = 1 /\ sessions[s].is_active
       /\ \E i \in 1..Len(messages) : messages[i].session_id = s
       /\ \A i \in 1..Len(messages) :
            messages[i].session_id = s => messages[i].req # done.req
  /\ Len(RowsOf(done.req)) = 2
  /\ \A i \in 1..Len(RowsOf(done.req)) :
       sessions[RowsOf(done.req)[i].session_id].user_id = 2

\* C38: no row is ever appended to a session whose is_active is false, also
\* when the session is deactivated, by DELETE /chat/sessions/{session_id} or
\* by cleanup_expired_sessions, while a turn in it is suspended in a tool call.
C38_AppendedToActive ==
  [][\A i \in (Len(messages) + 1)..Len(messages') :
       sessions'[messages'[i].session_id].is_active]_vars

====
